---- MODULE Spec2Model ----
(***************************************************************************)
(* Model of the Sony Bravia client (lib/bravia.js, here                    *)
(* src/unnamed/part_000 lines 1-476) and of the parts of the adapter that  *)
(* call it.  The specifications share the variables:                       *)
(*   SpecSend     the IRCC path: send, getIRCCCodes, _request              *)
(*   SpecApi      the structured path, one operation at a time:            *)
(*                _jsonRequest and the facade operations                   *)
(*   SpecVersion  overlapping getSupportedApiVersion / getContentList      *)
(*                calls and the cache of supported-API tables              *)
(*   SpecClient   a run of the send path or of the structured path         *)
(*   SpecDiscover the discovery scan: discover                             *)
(***************************************************************************)
EXTENDS Integers, Sequences, FiniteSets, TLC

\* ------------------------------------------------------------------ bounds

\* number of devices that answer the discovery search
MaxResponders == 2
\* number of structured operations invoked on the one client
MaxCalls == 2
\* number of send invocations that may run on the one client
MaxSends == 2
\* longest command list handed to send
MaxLen == 3
\* commands handed to send over all invocations together
MaxCommands == 3
\* state changes the adapter is notified of
MaxStateChanges == 2
\* ticks of the adapter's status interval
MaxTicks == 1

\* ----------------------------------------------------------- program constants

\* DEFAULT_TIME_BETWEEN_COMMANDS
DEFAULT_TIME_BETWEEN_COMMANDS == 350
\* static discover(timeout = 3000)
DEFAULT_DISCOVER_TIMEOUT == 3000

\* ------------------------------------------------------------------ strings
\* A command string is a sequence of one-character strings, so that the
\* regular expression of send can be evaluated character by character.

Upper == {"A","B","C","D","E","F","G","H","I","J","K","L","M",
          "N","O","P","Q","R","S","T","U","V","W","X","Y","Z"}
Lower == {"a","b","c","d","e","f","g","h","i","j","k","l","m",
          "n","o","p","q","r","s","t","u","v","w","x","y","z"}
Digit == {"0","1","2","3","4","5","6","7","8","9"}
AlphaNum == Upper \cup Lower \cup Digit

\* "AAAAAQAAAAEAAAAuAw=="  a literal code
CodeLiteral ==
    <<"A","A","A","A","A","Q","A","A","A","A","E","A","A","A","A","u","A","w","=","=">>
\* "AAAAAQAAAAEAAAA/Aw=="  base64, but "/" is not alphanumeric: a name
CodeSlash ==
    <<"A","A","A","A","A","Q","A","A","A","A","E","A","A","A","A","/","A","w","=","=">>
\* "VolumeUp"  a name the device lists
NameVolumeUp == <<"V","o","l","u","m","e","U","p">>
\* "volumeup"  differs from the listed name in case only
NameLower == <<"v","o","l","u","m","e","u","p">>
\* "AAAAAQAAAAEAAAASAw=="  the value the device lists for VolumeUp
ValueVolumeUp ==
    <<"A","A","A","A","A","Q","A","A","A","A","E","A","A","A","A","S","A","w","=","=">>
\* "Mute" and its value "AAAAAQAAAAEAAAAUAw=="
NameMute == <<"M","u","t","e">>
ValueMute ==
    <<"A","A","A","A","A","Q","A","A","A","A","E","A","A","A","A","U","A","w","=","=">>

\* the command strings a caller hands to send
Commands == {CodeLiteral, CodeSlash, NameVolumeUp, NameLower}

\* the command lists of at most n commands (and codes.length <= MaxLen)
CommandLists(n) == UNION {[1..k -> Commands] : k \in 0..(IF n < MaxLen THEN n ELSE MaxLen)}

\* ------------------------------------------------------------------ device

\* What getRemoteControllerInfo yields: the list of {name, value} pairs.
FullTable == << [name |-> NameVolumeUp, value |-> ValueVolumeUp],
                [name |-> NameMute, value |-> ValueMute] >>
EmptyTable == << >>
Tables == {FullTable, EmptyTable}

NoCode == << >>

\* Error objects: the message template, and what is substituted into it.
Err(msg, code, status) == [msg |-> msg, code |-> code, status |-> status]
\* an error of the request library (timeout, refused connection)
TransportError == Err("ETIMEDOUT", NoCode, 0)
\* the rejection of system.invoke('getRemoteControllerInfo')
InvokeError == Err("getRemoteControllerInfo failed", NoCode, 0)

\* The (error, response, body) a POST to /sony/IRCC calls back with.
\* error: "none" or the library's error; statusCode: of the response;
\* body: "ok" (the SOAP response), "fault" (a SOAP fault with UPnPError),
\* "garbage" (not XML).
IRCCResponses ==
    { [error |-> "none", statusCode |-> sc, body |-> b] :
        sc \in {200, 500}, b \in {"ok", "fault", "garbage"} }
    \cup { [error |-> "ETIMEDOUT", statusCode |-> 0, body |-> "none"] }

\* The outcome of system.invoke('getRemoteControllerInfo').
InvokeResults ==
    { [ok |-> TRUE, value |-> t, error |-> TransportError] : t \in Tables }
    \cup { [ok |-> FALSE, value |-> EmptyTable, error |-> InvokeError] }

\* ------------------------------------------------------------------ state

VARIABLES
    _codes,       \* this._codes: the cached Command Table
    sends,        \* the invocations of send: their closure variables and promise
    requests,     \* HTTP requests of the IRCC path that are in flight
    timers,       \* pending setTimeout(() => next(), this.delay)
    fetchCount,   \* history: per invocation, getRemoteControllerInfo requests issued
    settled,      \* history: per invocation, the last promise outcome its chain saw
    log,          \* history: per invocation, the events of its chain
    apiInfoMap,   \* this.apiInfoMap: per service namespace, the cached API info
    calls,        \* the invocations of the structured operations and their promises
    jsonRequests, \* structured requests (POST /sony/<service>) that are in flight
    started,      \* history: structured operations invoked so far
    apiFetchCount,\* history: per namespace, getSupportedApiInfo requests issued
    lastResp,     \* history: per invocation, the last response delivered to it
    lastJson,     \* history: per invocation, the last outcome of _jsonRequest
    scan,         \* the promise of discover() and what it settled with
    discovered,   \* discover's array discovered
    ssdp,         \* the SSDP client: "idle", "searching" or "stopped"
    timer,        \* discover's deadline timer
    fetches,      \* descriptor fetches (Request.get) that are in flight
    answered,     \* history: per responder, what its descriptor fetch delivered
    config,       \* this.host, this.port, this.psk, this.timeout, this._url
    wire,         \* history: the options of every Request.post of the client
    phase,        \* the adapter: "loaded", "ready" (main ran) or "unloaded"
    statusInterval, \* the adapter's interval handle: "none", "armed" or "cleared"
    timeoutHandle,  \* powerStatusTimeout .. volumeSetTimeout: the handle each holds
    commands,     \* the adapter's device commands whose promise has not settled
    armed,        \* the adapter's follow-up timeouts that are pending
    issued,       \* history: state changes handled so far
    ticks,        \* history: ticks of the status interval
    polls,        \* history: calls of checkStatus
    changes,      \* history: the state changes handled, and the power value read for each
    requested,    \* history: the state changes a device command was issued for
    gates,        \* pending getState / getObject reads of gated state changes
    pings,        \* the polls whose ping.probe has not called back
    queries,      \* the device reads of the polls whose promise has not settled
    isConnected,  \* isConnected: "null", "true" or "false"
    states,       \* the state store: info.connection, info.powerStatusActive, ...
    pinged,       \* history: per poll, what ping.probe called back with
    queried,      \* history: the device reads each poll issued
    written,      \* history: the values written to info.connection
    peer          \* a second client instance: its fields and its history

sendVars == <<_codes, sends, requests, timers, fetchCount, settled, log>>
apiVars == <<apiInfoMap, calls, jsonRequests, started, apiFetchCount, lastResp, lastJson>>
discVars == <<scan, discovered, ssdp, timer, fetches, answered>>
confVars == <<config, wire>>
adaptVars ==
    <<phase, statusInterval, timeoutHandle, commands, armed, issued, ticks, polls,
      changes, requested, gates, pings, queries, isConnected, states, pinged, queried,
      written>>
timerVars == <<phase, statusInterval, timeoutHandle, armed, ticks>>
changeVars == <<changes, requested, gates>>
pollVars == <<queries, isConnected, states, pinged, queried, written>>
clientVars == <<sendVars, apiVars, discVars, confVars, peer>>
instVars == <<peer>>
vars == <<sendVars, apiVars, discVars, confVars, adaptVars, instVars>>

\* constructor(host, port = 80, psk = '0000', timeout = 5000)
constructor(host, port, psk, timeout) ==
    [host |-> host, port |-> port, psk |-> psk, timeout |-> timeout,
     url |-> <<"http://", host, ":", port, "/sony">>]
\* new Controller(adapter.config.ip, '80', adapter.config.psk, 5000)
AdapterConfig == constructor("192.168.1.5", "80", "0000", 5000)
\* other ways to construct the client
Configs ==
    {constructor("192.168.1.5", "80", psk, timeout) :
        psk \in {"0000", "s3cret"}, timeout \in {5000, 1000}}
InitConfig == config = AdapterConfig /\ wire = {}

\* options with the constructor's default secret instead of the client's
RequestOptions_defaultPsk(conf, path) ==
    [url |-> Append(conf.url, path), timeout |-> conf.timeout, psk |-> "0000",
     soapAction |-> TRUE]
\* the options _request hands to Request.post
RequestOptions(conf, path) ==
    [url |-> Append(conf.url, path), timeout |-> conf.timeout, psk |-> conf.psk,
     soapAction |-> TRUE]
\* the options _jsonRequest hands to Request.post
JsonOptions(conf, service) ==
    [url |-> conf.url \o <<"/", service>>, timeout |-> conf.timeout, psk |-> conf.psk,
     soapAction |-> FALSE]

SendIds == 1..MaxSends

NoError == Err("", NoCode, 0)
NoSettled == [src |-> "none", ok |-> TRUE, value |-> EmptyTable, error |-> NoError]

\* constructor: this._codes = []
InitSend ==
    /\ _codes = << >>
    /\ sends = [i \in SendIds |->
                  [status |-> "idle", codes |-> << >>, index |-> 0, error |-> NoError]]
    /\ requests = {}
    /\ timers = {}
    /\ fetchCount = [i \in SendIds |-> 0]
    /\ settled = [i \in SendIds |-> NoSettled]
    /\ log = [i \in SendIds |-> << >>]

\* ------------------------------------------------------------------ send
\* The code below is written as functions from a state record to a state
\* record; an action applies one of them to the current state.

Cur == [codes |-> _codes, sends |-> sends, requests |-> requests, timers |-> timers,
        fetchCount |-> fetchCount, settled |-> settled, log |-> log,
        config |-> config, wire |-> wire]

Apply(st) ==
    /\ _codes' = st.codes
    /\ sends' = st.sends
    /\ requests' = st.requests
    /\ timers' = st.timers
    /\ fetchCount' = st.fetchCount
    /\ settled' = st.settled
    /\ log' = st.log
    /\ config' = st.config
    /\ wire' = st.wire
    /\ UNCHANGED <<apiVars, discVars, adaptVars, instVars>>

\* history: an event of invocation i's chain, at its current index
Event(ev, idx, code) == [ev |-> ev, idx |-> idx, code |-> code]
Logged(st, i, ev, code) ==
    [st EXCEPT !.log[i] = Append(@, Event(ev, st.sends[i].index, code))]
\* history: the promise outcome invocation i's chain has just seen
Outcome(src, ok, table, error) ==
    [src |-> src, ok |-> ok, value |-> table, error |-> error]
Saw(st, i, outcome) == [st EXCEPT !.settled[i] = outcome]

\* reject(error) of send's promise; a settled promise ignores it
Reject(st, i, error) ==
    IF st.sends[i].status = "running"
    THEN [st EXCEPT !.sends[i].status = "rejected", !.sends[i].error = error]
    ELSE st

\* resolve() of send's promise
Resolve(st, i) ==
    IF st.sends[i].status = "running"
    THEN [st EXCEPT !.sends[i].status = "resolved"]
    ELSE st

\* _request's callback: the promise outcome for (error, response, body)
_request(resp) ==
    IF resp.error = "none" /\ resp.statusCode = 200
    THEN [ok |-> TRUE, error |-> NoError]
    ELSE IF resp.error # "none"
    THEN [ok |-> FALSE, error |-> Err(resp.error, NoCode, 0)]
    ELSE IF resp.statusCode # 200
    THEN [ok |-> FALSE,
          error |-> Err("Response error, status code: ", NoCode, resp.statusCode)]
    ELSE IF resp.body = "fault"
    THEN [ok |-> FALSE, error |-> Err("UPnPError errorDescription", NoCode, 0)]
    ELSE IF resp.body = "garbage"
    THEN [ok |-> FALSE, error |-> Err("Failed to parse the error response: ", NoCode, 0)]
    ELSE [ok |-> FALSE,
          error |-> Err("Unexpected or malformed error response: ", NoCode, 0)]

\* a transmission that stores the request's url in the client
send_storesUrl(st, i, code) ==
    Logged([st EXCEPT !.requests = @ \cup
                {[kind |-> "IRCC", owner |-> i, idx |-> st.sends[i].index, code |-> code]},
                      !.wire = @ \cup {RequestOptions(st.config, "/IRCC")},
                      !.config.url = Append(@, "/IRCC")],
           i, "tx", code)

\* the closure send(code): POST the envelope with <IRCCCode>code</IRCCCode>
send(st, i, code) ==
    Logged([st EXCEPT !.requests = @ \cup
                {[kind |-> "IRCC", owner |-> i, idx |-> st.sends[i].index, code |-> code]},
                      !.wire = @ \cup {RequestOptions(st.config, "/IRCC")}],
           i, "tx", code)

\* the letters of a string in lower case
ToLower(code) ==
    LET up == <<"A","B","C","D","E","F","G","H","I","J","K","L","M",
                "N","O","P","Q","R","S","T","U","V","W","X","Y","Z">>
        lo == <<"a","b","c","d","e","f","g","h","i","j","k","l","m",
                "n","o","p","q","r","s","t","u","v","w","x","y","z">>
    IN [k \in 1..Len(code) |->
          IF code[k] \in Upper
          THEN lo[CHOOSE n \in 1..26 : up[n] = code[k]]
          ELSE code[k]]

\* a find that compares the names without regard to case
find_ignoreCase(response, code) ==
    LET hits == {k \in 1..Len(response) : ToLower(response[k].name) = ToLower(code)}
    IN IF hits = {} THEN 0 ELSE CHOOSE k \in hits : \A j \in hits : k <= j

\* response.find(ircc => ircc.name === code): the index of the first match, 0 if none
find(response, code) ==
    LET hits == {k \in 1..Len(response) : response[k].name = code}
    IN IF hits = {} THEN 0 ELSE CHOOSE k \in hits : \A j \in hits : k <= j

\* the callback of getIRCCCodes().then(response => ...) in next
lookup(st, i, response, code) ==
    LET k == find(response, code)
    IN IF k = 0
       THEN Reject(st, i, Err("Unknown IRCC code ", code, 0))
       ELSE send(st, i, response[k].value)

\* a getIRCCCodes that asks the device every time
getIRCCCodes_noCache(st, i, code) ==
    [st EXCEPT !.requests = @ \cup
         {[kind |-> "table", owner |-> i, idx |-> st.sends[i].index, code |-> code]},
     !.fetchCount[i] = @ + 1]

\* getIRCCCodes() as next calls it, up to the point where it waits for the device
getIRCCCodes(st, i, code) ==
    IF Len(st.codes) > 0
    THEN lookup(Saw(st, i, Outcome("getIRCCCodes", TRUE, st.codes, NoError)),
                i, st.codes, code)
    ELSE [st EXCEPT !.requests = @ \cup
              {[kind |-> "table", owner |-> i, idx |-> st.sends[i].index, code |-> code]},
          !.fetchCount[i] = @ + 1]

\* a fetch whose failure empties the cached table
onInvokeSettled_clears(st, i, code, res) ==
    IF res.ok
    THEN LET st1 == [st EXCEPT !.codes = res.value]
         IN lookup(Saw(st1, i, Outcome("getIRCCCodes", TRUE, st1.codes, NoError)),
                   i, st1.codes, code)
    ELSE Reject(Saw([st EXCEPT !.codes = EmptyTable], i,
                    Outcome("getIRCCCodes", FALSE, EmptyTable, res.error)),
                i, res.error)

\* a fetch whose answer is added to the cached table
onInvokeSettled_merges(st, i, code, res) ==
    IF res.ok
    THEN LET st1 == [st EXCEPT !.codes = @ \o res.value]
         IN lookup(Saw(st1, i, Outcome("getIRCCCodes", TRUE, st1.codes, NoError)),
                   i, st1.codes, code)
    ELSE Reject(Saw(st, i, Outcome("getIRCCCodes", FALSE, EmptyTable, res.error)),
                i, res.error)

\* getIRCCCodes() when system.invoke('getRemoteControllerInfo') settles
onInvokeSettled(st, i, code, res) ==
    IF res.ok
    THEN LET st1 == [st EXCEPT !.codes = res.value]
         IN lookup(Saw(st1, i, Outcome("getIRCCCodes", TRUE, st1.codes, NoError)),
                   i, st1.codes, code)
    ELSE Reject(Saw(st, i, Outcome("getIRCCCodes", FALSE, EmptyTable, res.error)),
                i, res.error)

\* a test for the literal shape that asks for one alphanumeric character too many
IsLiteralCode_offByOne(code) ==
    /\ Len(code) = 21
    /\ \A k \in 1..5 : code[k] = "A"
    /\ \A k \in 6..19 : code[k] \in AlphaNum
    /\ code[20] = "="
    /\ code[21] = "="

\* /^[A]{5}[a-zA-Z0-9]{13}[\=]{2}$/.test(code)
IsLiteralCode(code) ==
    /\ Len(code) = 20
    /\ \A k \in 1..5 : code[k] = "A"
    /\ \A k \in 6..18 : code[k] \in AlphaNum
    /\ code[19] = "="
    /\ code[20] = "="

\* a next() that resolves before the last command
next_skipsLast(st, i) ==
    LET s == st.sends[i]
    IN IF s.index + 1 < Len(s.codes)
       THEN LET code == s.codes[s.index + 1]
                st1 == [st EXCEPT !.sends[i].index = @ + 1]
            IN IF IsLiteralCode(code)
               THEN send(st1, i, code)
               ELSE getIRCCCodes(st1, i, code)
       ELSE Resolve(st, i)

\* the closure next()
next(st, i) ==
    LET s == st.sends[i]
    IN IF s.index < Len(s.codes)
       THEN LET code == s.codes[s.index + 1]
                st1 == [st EXCEPT !.sends[i].index = @ + 1]
            IN IF IsLiteralCode(code)
               THEN send(st1, i, code)
               ELSE getIRCCCodes(st1, i, code)
       ELSE Resolve(st, i)

\* a wiring that transmits the command again when its transmission failed
onRequestSettled_retry(st, i, res) ==
    IF res.ok
    THEN Logged([st EXCEPT !.timers = @ \cup
                    {[owner |-> i, delay |-> DEFAULT_TIME_BETWEEN_COMMANDS]}],
                i, "delayStart", NoCode)
    ELSE send(st, i, st.sends[i].codes[st.sends[i].index])

\* a wiring that starts the next command without waiting for the delay
onRequestSettled_noDelay(st, i, res) ==
    IF res.ok
    THEN next(Logged(st, i, "delayStart", NoCode), i)
    ELSE Reject(st, i, res.error)

\* a wiring that arms the timer whatever the outcome of the transmission
onRequestSettled_always(st, i, res) ==
    LET st1 == Logged([st EXCEPT !.timers = @ \cup
                          {[owner |-> i, delay |-> DEFAULT_TIME_BETWEEN_COMMANDS]}],
                      i, "delayStart", NoCode)
    IN IF res.ok THEN st1 ELSE Reject(st1, i, res.error)

\* .then(() => setTimeout(() => next(), this.delay), reject) on _request's promise
onRequestSettled(st, i, res) ==
    IF res.ok
    THEN Logged([st EXCEPT !.timers = @ \cup
                    {[owner |-> i, delay |-> DEFAULT_TIME_BETWEEN_COMMANDS]}],
                i, "delayStart", NoCode)
    ELSE Reject(st, i, res.error)

\* what a caller hands to send: one string, or a list of at most n strings
SendInputs(n) ==
    {[type |-> "string", str |-> c, list |-> << >>] : c \in IF n > 0 THEN Commands ELSE {}}
    \cup {[type |-> "array", str |-> NoCode, list |-> l] : l \in CommandLists(n)}

\* a send that takes lists only: a string has no list of commands
asList_listsOnly(input) == input.list
\* if (typeof codes === 'string') codes = [codes]
asList(input) == IF input.type = "string" THEN <<input.str>> ELSE input.list

\* the commands handed to send so far
Handed ==
    LET upTo[k \in 0..MaxSends] ==
            IF k = 0 THEN 0 ELSE upTo[k - 1] + Len(sends[k].codes)
    IN upTo[MaxSends]

\* send(codes) on the client st: the promise executor, up to the first wait
executor(st, i, input) ==
    next([st EXCEPT !.sends[i] =
             [status |-> "running", codes |-> asList(input),
              index |-> 0, error |-> NoError]], i)
\* the client st when system.invoke('getRemoteControllerInfo') settles
onTableAnswer(st, r, res) ==
    onInvokeSettled([st EXCEPT !.requests = @ \ {r}], r.owner, r.code, res)
\* the client st when Request.post of _request calls back
onIRCCAnswer(st, r, resp) ==
    LET res == _request(resp)
        st0 == [st EXCEPT !.requests = @ \ {r}]
        st1 == Logged(st0, r.owner, IF res.ok THEN "done" ELSE "fail", NoCode)
        st2 == Saw(st1, r.owner, Outcome("_request", res.ok, EmptyTable, res.error))
    IN onRequestSettled(st2, r.owner, res)
\* the client st when the timer of setTimeout(() => next(), this.delay) fires
onDelay(st, t) ==
    next(Logged([st EXCEPT !.timers = @ \ {t}], t.owner, "delayEnd", NoCode), t.owner)

\* send(codes): the promise executor, up to the first wait
CallSend(i, input) ==
    /\ sends[i].status = "idle"
    /\ \A j \in SendIds : j < i => sends[j].status # "idle"
    /\ Apply(executor(Cur, i, input))

\* system.invoke('getRemoteControllerInfo') settles
RemoteControllerInfoResponse(r, res) ==
    /\ r \in requests
    /\ r.kind = "table"
    /\ Apply(onTableAnswer(Cur, r, res))

\* the device (or the network) answers a POST to /sony/IRCC
IRCCResponse(r, resp) ==
    /\ r \in requests
    /\ r.kind = "IRCC"
    /\ Apply(onIRCCAnswer(Cur, r, resp))

\* the inter-command timer fires
DelayElapsed(t) ==
    /\ t \in timers
    /\ Apply(onDelay(Cur, t))

NextSend ==
    \/ \E i \in SendIds, input \in SendInputs(MaxCommands - Handed) : CallSend(i, input)
    \/ \E r \in requests, res \in InvokeResults : RemoteControllerInfoResponse(r, res)
    \/ \E r \in requests, resp \in IRCCResponses : IRCCResponse(r, resp)
    \/ \E t \in timers : DelayElapsed(t)

\* ------------------------------------------------------------------ structured calls: data

\* the service namespaces used here, of SERVICE_PROTOCOLS
Namespaces == {"avContent", "system"}
\* the methods asked for in getSupportedApiVersion
Methods == {"getContentList", "getSchemeList"}

\* One element of apiInfo: a service with its apis and their versions.
Api(name, versions) == [name |-> name, versions |-> versions]
V(version) == [version |-> version]
\* the device lists getContentList, its versions not in ascending order
ServiceListed ==
    [service |-> "avContent",
     apis |-> << Api("getSchemeList", <<V("1.0")>>),
                 Api("getContentList", <<V("1.0"), V("1.5"), V("1.2")>>) >>]
\* the device does not list getContentList
ServiceUnlisted ==
    [service |-> "avContent", apis |-> << Api("getSchemeList", <<V("1.0")>>) >>]

\* An element of a result array.  apiInfo, itself an array, is the field services.
Payload(title, modelName, productName, interfaceVersion, status, services) ==
    [title |-> title, modelName |-> modelName, productName |-> productName,
     interfaceVersion |-> interfaceVersion, status |-> status, services |-> services]
NoPayload == Payload("", "", "", "", "", << >>)
DevicePayload == Payload("HDMI 2", "FW-55BZ35F", "BRAVIA", "5.0.1", "active", << >>)

\* A decoded body: an object with the keys it has and the values of result and error,
\* or null.
Body(keys, result, error) ==
    [type |-> "object", keys |-> keys, result |-> result, error |-> error]
NoPair == [code |-> 0, message |-> ""]
NoBody == Body({}, << >>, NoPair)
NullBody == [type |-> "null", keys |-> {}, result |-> << >>, error |-> NoPair]

\* The bodies the device answers with, as text.
RawResult == "{\"result\":[{\"title\":\"HDMI 2\",...}],\"id\":1337}"
RawListed == "{\"result\":[[{\"service\":\"avContent\",\"apis\":[...getContentList...]}]],\"id\":1337}"
RawUnlisted == "{\"result\":[[{\"service\":\"avContent\",\"apis\":[...]}]],\"id\":1337}"
RawError == "{\"error\":[40005,\"Display Is Turned off\"],\"id\":1337}"
RawNeither == "{\"id\":1337}"
RawEmptyResult == "{\"result\":[],\"id\":1337}"
RawNeitherSpaced == "{ \"id\": 1337 }"
RawNull == "null"
RawHtml == "<html>Service Unavailable</html>"
RawBodies ==
    {RawResult, RawListed, RawUnlisted, RawError, RawNeither, RawNeitherSpaced, RawNull, RawHtml}

\* JSON.parse(body): the decoded body, or a SyntaxError
JSONparse(raw) ==
    CASE raw = RawResult -> [ok |-> TRUE, body |-> Body({"result", "id"}, <<DevicePayload>>, NoPair)]
      [] raw = RawListed ->
            [ok |-> TRUE,
             body |-> Body({"result", "id"},
                           <<Payload("", "", "", "", "", <<ServiceListed>>)>>, NoPair)]
      [] raw = RawUnlisted ->
            [ok |-> TRUE,
             body |-> Body({"result", "id"},
                           <<Payload("", "", "", "", "", <<ServiceUnlisted>>)>>, NoPair)]
      [] raw = RawError ->
            [ok |-> TRUE,
             body |-> Body({"error", "id"}, << >>,
                           [code |-> 40005, message |-> "Display Is Turned off"])]
      [] raw \in {RawNeither, RawNeitherSpaced} ->
            [ok |-> TRUE, body |-> Body({"id"}, << >>, NoPair)]
      [] raw = RawEmptyResult ->
            [ok |-> TRUE, body |-> Body({"result", "id"}, << >>, NoPair)]
      [] raw = RawNull -> [ok |-> TRUE, body |-> NullBody]
      [] OTHER -> [ok |-> FALSE, body |-> NoBody]

\* JSON.stringify(body): the text without insignificant white space
JSONstringify(body) ==
    IF body.type = "null" THEN RawNull
    ELSE IF "result" \in body.keys
    THEN IF body.result = << >> THEN RawEmptyResult
         ELSE IF body.result[1].services = << >> THEN RawResult
         ELSE IF body.result[1].services = <<ServiceListed>> THEN RawListed
         ELSE RawUnlisted
    ELSE IF "error" \in body.keys THEN RawError
    ELSE RawNeither

\* Error objects of the structured path: the message template and its substitutions.
JsonErr(msg, name, arg, status, text) ==
    [msg |-> msg, name |-> name, arg |-> arg, status |-> status, text |-> text]
NoJsonErr == JsonErr("", "", "", 0, "")

\* The (error, response, body) a POST to /sony/<service> calls back with.
JsonResponses ==
    { [error |-> "none", statusCode |-> sc, body |-> b] : sc \in {200, 500}, b \in RawBodies }
    \cup { [error |-> "ETIMEDOUT", statusCode |-> 0, body |-> ""] }
\* the answers, an empty result array among them
InfoResponses ==
    JsonResponses \cup {[error |-> "none", statusCode |-> 200, body |-> RawEmptyResult]}
\* the answers that matter to version resolution
VersionResponses ==
    { [error |-> "none", statusCode |-> 200, body |-> b] :
        b \in {RawResult, RawListed, RawUnlisted, RawError} }
    \cup { [error |-> "ETIMEDOUT", statusCode |-> 0, body |-> ""] }

\* The structured operations and their arguments.
SimpleOps == {"getInterfaceInformation", "getPlayingContentInfo", "getPowerStatus",
              "setPowerStatus", "getSchemeList", "getSourceList", "setPlayContent",
              "getApplicationList", "setActiveApp", "terminateApps"}
Invocation(op, schema, method, source) ==
    [op |-> op, schema |-> schema, method |-> method, source |-> source]
\* getSupportedApiVersion(_schema, _methode) and getContentList(0, 150, _source)
VersionInvocations ==
    { Invocation("getSupportedApiVersion", s, m, "") : s \in Namespaces, m \in Methods }
    \cup { Invocation("getContentList", "", "", "tv:dvbt") }
Invocations ==
    { Invocation(op, "", "", "") : op \in SimpleOps }
    \cup { Invocation("getSupportedApiInfo", s, "", "") : s \in Namespaces }
    \cup VersionInvocations

\* the service a method is posted to
ServiceOf(op) ==
    CASE op \in {"getInterfaceInformation", "getPowerStatus", "setPowerStatus"} -> "system"
      [] op \in {"getPlayingContentInfo", "getSchemeList", "getSourceList",
                 "getContentList", "setPlayContent"} -> "avContent"
      [] op = "getSupportedApiInfo" -> "guide"
      [] OTHER -> "appControl"

CallIds == 1..MaxCalls

NoEntry == [has |-> FALSE, value |-> << >>]
Entry(apiInfo) == [has |-> TRUE, value |-> apiInfo]
NoValue == [text |-> << >>, payload |-> NoPayload]
\* sent is history: the methods of the requests the invocation has posted
NoCall == [inv |-> Invocation("", "", "", ""), status |-> "idle",
           value |-> NoValue, error |-> NoJsonErr, sent |-> << >>]
NoResp == [error |-> "none", statusCode |-> 0, body |-> "", method |-> ""]
NoJson == [kind |-> "none", body |-> NoBody, error |-> NoJsonErr]

\* constructor: this.apiInfoMap = new Map()
InitApi ==
    /\ apiInfoMap = [ns \in Namespaces |-> NoEntry]
    /\ calls = [c \in CallIds |-> NoCall]
    /\ jsonRequests = {}
    /\ started = 0
    /\ apiFetchCount = [ns \in Namespaces |-> 0]
    /\ lastResp = [c \in CallIds |-> NoResp]
    /\ lastJson = [c \in CallIds |-> NoJson]

\* ------------------------------------------------------------------ structured calls: code

ApiCur == [map |-> apiInfoMap, calls |-> calls, reqs |-> jsonRequests,
           fetches |-> apiFetchCount, json |-> lastJson,
           config |-> config, wire |-> wire]

ApplyApi(st) ==
    /\ apiInfoMap' = st.map
    /\ calls' = st.calls
    /\ jsonRequests' = st.reqs
    /\ apiFetchCount' = st.fetches
    /\ lastJson' = st.json
    /\ config' = st.config
    /\ wire' = st.wire
    /\ UNCHANGED <<sendVars, discVars, adaptVars, instVars>>

\* reject(error) of an operation's promise; a settled promise ignores it
RejectCall(st, c, error) ==
    IF st.calls[c].status = "running"
    THEN [st EXCEPT !.calls[c].status = "rejected", !.calls[c].error = error]
    ELSE st

\* resolve(value) of an operation's promise
ResolveCall(st, c, value) ==
    IF st.calls[c].status = "running"
    THEN [st EXCEPT !.calls[c].status = "resolved", !.calls[c].value = value]
    ELSE st

\* Request.post({... body: JSON.stringify({method, id, params, version})}, callback)
post(st, c, service, method, schema, version) ==
    [st EXCEPT !.reqs = @ \cup
                  {[owner |-> c, service |-> service, method |-> method,
                    schema |-> schema, version |-> version]},
               !.calls[c].sent = Append(@, method),
               !.wire = @ \cup {JsonOptions(st.config, service)}]

\* a callback that decodes the body before it looks at the status
_jsonRequest_parseFirst(method, resp) ==
    IF resp.error # "none"
    THEN [kind |-> "rejected", body |-> NoBody,
          error |-> JsonErr(resp.error, "", "", 0, "")]
    ELSE LET p == JSONparse(resp.body)
         IN IF ~p.ok
            THEN [kind |-> "thrown", body |-> NoBody, error |-> NoJsonErr]
            ELSE IF "error" \in p.body.keys
            THEN [kind |-> "rejected", body |-> NoBody,
                  error |-> JsonErr(p.body.error.message, "", "", 0, "")]
            ELSE IF resp.statusCode # 200
            THEN [kind |-> "rejected", body |-> NoBody,
                  error |-> JsonErr(". Response error, status code: ", method, "",
                                    resp.statusCode, "")]
            ELSE [kind |-> "resolved", body |-> p.body, error |-> NoJsonErr]

\* _jsonRequest's callback: the promise outcome for (error, response, body).
\* "thrown": JSON.parse threw inside the callback, the promise stays pending.
_jsonRequest(method, resp) ==
    IF resp.error = "none" /\ resp.statusCode = 200
    THEN LET p == JSONparse(resp.body)
         IN IF p.ok
            THEN [kind |-> "resolved", body |-> p.body, error |-> NoJsonErr]
            ELSE [kind |-> "thrown", body |-> NoBody, error |-> NoJsonErr]
    ELSE IF resp.error # "none"
    THEN [kind |-> "rejected", body |-> NoBody,
          error |-> JsonErr(resp.error, "", "", 0, "")]
    ELSE IF resp.statusCode # 200
    THEN [kind |-> "rejected", body |-> NoBody,
          error |-> JsonErr(". Response error, status code: ", method, "",
                            resp.statusCode, "")]
    ELSE [kind |-> "rejected", body |-> NoBody,
          error |-> JsonErr(resp.body, "", "", 0, "")]

\* a version lookup that takes the first entry of the version list
supportedVersion_first(apiInfo, method) ==
    IF Len(apiInfo) = 0 THEN "TypeError"
    ELSE LET apis == apiInfo[1].apis
             hits == {k \in 1..Len(apis) : apis[k].name = method}
         IN IF hits = {} THEN "1.0"
            ELSE LET k == CHOOSE k \in hits : \A j \in hits : k <= j
                 IN IF Len(apis[k].versions) = 0 THEN "TypeError"
                    ELSE apis[k].versions[1].version

\* getSupportedApiVersion, from the for loop on: the version, or a TypeError
supportedVersion(apiInfo, method) ==
    IF Len(apiInfo) = 0 THEN "TypeError"
    ELSE LET apis == apiInfo[1].apis
             hits == {k \in 1..Len(apis) : apis[k].name = method}
         IN IF hits = {} THEN "1.0"
            ELSE LET k == CHOOSE k \in hits : \A j \in hits : k <= j
                 IN IF Len(apis[k].versions) = 0 THEN "TypeError"
                    ELSE apis[k].versions[Len(apis[k].versions)].version

\* the TypeError of reading a property of null or undefined
TypeError == JsonErr("TypeError", "", "", 0, "")

\* a getContentList that posts with the default version
afterVersion_default(st, c, version) ==
    IF version = "TypeError"
    THEN RejectCall(st, c, TypeError)
    ELSE IF st.calls[c].inv.op = "getContentList"
    THEN post(st, c, "avContent", "getContentList", "", "1.0")
    ELSE ResolveCall(st, c, [text |-> <<version>>, payload |-> NoPayload])

\* what follows getSupportedApiVersion's result in the operation that asked for it
afterVersion(st, c, version) ==
    IF version = "TypeError"
    THEN RejectCall(st, c, TypeError)
    ELSE IF st.calls[c].inv.op = "getContentList"
    THEN post(st, c, "avContent", "getContentList", "", version)
    ELSE ResolveCall(st, c, [text |-> <<version>>, payload |-> NoPayload])

\* a getSupportedApiVersion that never looks into the cache
getSupportedApiVersion_noCache(st, c, schema, method) ==
    [post(st, c, "guide", "getSupportedApiInfo", schema, "1.0")
        EXCEPT !.fetches[schema] = @ + 1]

\* getSupportedApiVersion(_schema, _methode), up to the await
getSupportedApiVersion(st, c, schema, method) ==
    IF st.map[schema].has
    THEN afterVersion(st, c, supportedVersion(st.map[schema].value, method))
    ELSE [post(st, c, "guide", "getSupportedApiInfo", schema, "1.0")
             EXCEPT !.fetches[schema] = @ + 1]

\* the namespace and method an operation resolves a version for
SchemaOf(inv) == IF inv.op = "getContentList" THEN "avContent" ELSE inv.schema
MethodOf(inv) == IF inv.op = "getContentList" THEN "getContentList" ELSE inv.method

\* the Error of a body without result
MissingResult(name, arg, body) ==
    JsonErr(". Response error. Missing result. ", name, arg, 0, JSONstringify(body))

\* a resolution that stores an empty table when the fetch has failed
onApiInfoSettled_cachesFailure(st, c, out) ==
    LET inv == st.calls[c].inv
    IN IF out.kind = "rejected"
       THEN RejectCall([st EXCEPT !.map[SchemaOf(inv)] = Entry(<< >>)], c, out.error)
       ELSE IF out.kind = "thrown" THEN st
       ELSE IF out.body.type = "null" THEN RejectCall(st, c, TypeError)
       ELSE IF "result" \in out.body.keys /\ out.body.result = << >>
       THEN RejectCall([st EXCEPT !.map[SchemaOf(inv)] = NoEntry], c, TypeError)
       ELSE IF "result" \in out.body.keys
       THEN LET apiInfo == out.body.result[1].services
                st1 == [st EXCEPT !.map[SchemaOf(inv)] = Entry(apiInfo)]
            IN afterVersion(st1, c, supportedVersion(apiInfo, MethodOf(inv)))
       ELSE RejectCall(st, c, MissingResult("getSupportedApiInfo", "", out.body))

\* getSupportedApiVersion after the await: getSupportedApiInfo's promise has settled
onApiInfoSettled(st, c, out) ==
    LET inv == st.calls[c].inv
    IN IF out.kind = "rejected" THEN RejectCall(st, c, out.error)
       ELSE IF out.kind = "thrown" THEN st
       ELSE IF out.body.type = "null" THEN RejectCall(st, c, TypeError)
       ELSE IF "result" \in out.body.keys /\ out.body.result = << >>
       THEN \* apiInfoMap.set(_schema, undefined); apiInfo[0] throws
            RejectCall([st EXCEPT !.map[SchemaOf(inv)] = NoEntry], c, TypeError)
       ELSE IF "result" \in out.body.keys
       THEN LET apiInfo == out.body.result[1].services
                st1 == [st EXCEPT !.map[SchemaOf(inv)] = Entry(apiInfo)]
            IN afterVersion(st1, c, supportedVersion(apiInfo, MethodOf(inv)))
       ELSE RejectCall(st, c, MissingResult("getSupportedApiInfo", "", out.body))

\* a result text with the product before the model
ResultOf_productFirst(op, body) ==
    LET r == IF body.result = << >> THEN NoPayload ELSE body.result[1]
    IN CASE op = "getInterfaceInformation" ->
              [text |-> <<r.productName, "/", r.interfaceVersion, " ", r.modelName>>,
               payload |-> NoPayload]
         [] op = "getPlayingContentInfo" -> [text |-> <<r.title>>, payload |-> NoPayload]
         [] op \in {"getPowerStatus", "setPowerStatus"} ->
              [text |-> <<"body">>, payload |-> r]
         [] OTHER -> [text |-> << >>, payload |-> r]

\* what an operation resolves with when the body has a result; body.result[0]
\* of an empty array is undefined
ResultOf(op, body) ==
    LET r == IF body.result = << >> THEN NoPayload ELSE body.result[1]
    IN CASE op = "getInterfaceInformation" ->
              [text |-> <<r.modelName, " ", r.productName, "/", r.interfaceVersion>>,
               payload |-> NoPayload]
         [] op = "getPlayingContentInfo" -> [text |-> <<r.title>>, payload |-> NoPayload]
         [] op \in {"getPowerStatus", "setPowerStatus"} ->
              [text |-> <<"body">>, payload |-> r]
         [] OTHER -> [text |-> << >>, payload |-> r]

\* if (body.result) resolve(...): reading a field of body.result[0] throws when
\* the array is empty, and the operation's .catch rejects with the TypeError
resolveResult(st, c, op, body) ==
    IF body.result = << >> /\ op \in {"getInterfaceInformation", "getPlayingContentInfo"}
    THEN RejectCall(st, c, TypeError)
    ELSE ResolveCall(st, c, ResultOf(op, body))

\* a handler without the special case of getPlayingContentInfo
onOwnSettled_noSpecialCase(st, c, out) ==
    LET inv == st.calls[c].inv
    IN IF out.kind = "rejected" THEN RejectCall(st, c, out.error)
       ELSE IF out.kind = "thrown" THEN st
       ELSE IF out.body.type = "null" THEN RejectCall(st, c, TypeError)
       ELSE IF "result" \in out.body.keys
       THEN resolveResult(st, c, inv.op, out.body)
       ELSE RejectCall(st, c, MissingResult(inv.op, inv.source, out.body))

\* a handler that makes the special case of getPlayingContentInfo the rule
onOwnSettled_lenient(st, c, out) ==
    LET inv == st.calls[c].inv
    IN IF out.kind = "rejected" THEN RejectCall(st, c, out.error)
       ELSE IF out.kind = "thrown" THEN st
       ELSE IF out.body.type = "null" THEN RejectCall(st, c, TypeError)
       ELSE IF "result" \in out.body.keys
       THEN resolveResult(st, c, inv.op, out.body)
       ELSE IF "error" \in out.body.keys
       THEN ResolveCall(st, c, [text |-> <<out.body.error.message>>, payload |-> NoPayload])
       ELSE RejectCall(st, c, MissingResult(inv.op, inv.source, out.body))

\* a handler that reports a missing result without the body
onOwnSettled_bare(st, c, out) ==
    LET inv == st.calls[c].inv
    IN IF out.kind = "rejected" THEN RejectCall(st, c, out.error)
       ELSE IF out.kind = "thrown" THEN st
       ELSE IF out.body.type = "null" THEN RejectCall(st, c, TypeError)
       ELSE IF "result" \in out.body.keys
       THEN resolveResult(st, c, inv.op, out.body)
       ELSE IF inv.op = "getPlayingContentInfo" /\ "error" \in out.body.keys
       THEN ResolveCall(st, c, [text |-> <<out.body.error.message>>, payload |-> NoPayload])
       ELSE RejectCall(st, c, JsonErr(". Response error. Missing result. ", "", "", 0, ""))

\* the .then(body => ...).catch(error => reject(error)) of a facade operation
onOwnSettled(st, c, out) ==
    LET inv == st.calls[c].inv
    IN IF out.kind = "rejected" THEN RejectCall(st, c, out.error)
       ELSE IF out.kind = "thrown" THEN st
       ELSE IF out.body.type = "null" THEN RejectCall(st, c, TypeError)
       ELSE IF "result" \in out.body.keys
       THEN resolveResult(st, c, inv.op, out.body)
       ELSE IF inv.op = "getPlayingContentInfo" /\ "error" \in out.body.keys
       THEN ResolveCall(st, c, [text |-> <<out.body.error.message>>, payload |-> NoPayload])
       ELSE RejectCall(st, c, MissingResult(inv.op, inv.source, out.body))

\* an operation's promise executor, up to its first wait
invoke(st, c, inv) ==
    LET st1 == [st EXCEPT !.calls[c] = [NoCall EXCEPT !.inv = inv, !.status = "running"],
                          !.json[c] = NoJson]
    IN IF inv.op \in {"getSupportedApiVersion", "getContentList"}
       THEN getSupportedApiVersion(st1, c, SchemaOf(inv), MethodOf(inv))
       ELSE post(st1, c, ServiceOf(inv.op), inv.op, inv.schema, "1.0")

\* a caller invokes an operation while none is in flight
CallAlone(inv) ==
    /\ jsonRequests = {}
    /\ started < MaxCalls
    /\ started' = started + 1
    /\ lastResp' = [c \in CallIds |-> NoResp]
    /\ ApplyApi(invoke([ApiCur EXCEPT !.calls = [c \in CallIds |-> NoCall],
                                      !.json = [c \in CallIds |-> NoJson]], 1, inv))

\* a caller invokes an operation, whatever else is in flight
CallOverlapping(c, inv) ==
    /\ calls[c].status = "idle"
    /\ \A j \in CallIds : j < c => calls[j].status # "idle"
    /\ started' = started + 1
    /\ UNCHANGED lastResp
    /\ ApplyApi(invoke(ApiCur, c, inv))

\* the client st when Request.post of _jsonRequest calls back
onJsonAnswer(st, r, resp) ==
    LET c == r.owner
        out == _jsonRequest(r.method, resp)
        st0 == [st EXCEPT !.reqs = @ \ {r}, !.json[c] = out]
    IN IF r.method = "getSupportedApiInfo" /\ st.calls[c].inv.op # "getSupportedApiInfo"
       THEN onApiInfoSettled(st0, c, out)
       ELSE onOwnSettled(st0, c, out)

\* the device (or the network) answers a POST to /sony/<service>
JsonResponse(r, resp) ==
    /\ r \in jsonRequests
    /\ lastResp' = [lastResp EXCEPT ![r.owner] =
           [error |-> resp.error, statusCode |-> resp.statusCode,
            body |-> resp.body, method |-> r.method]]
    /\ UNCHANGED started
    /\ ApplyApi(onJsonAnswer(ApiCur, r, resp))

NextApi ==
    \/ \E inv \in Invocations : CallAlone(inv)
    \/ \E r \in jsonRequests, resp \in JsonResponses : JsonResponse(r, resp)

\* sequential facade calls; the device may also answer with an empty result array
NextInfo ==
    \/ \E inv \in Invocations : CallAlone(inv)
    \/ \E r \in jsonRequests, resp \in InfoResponses : JsonResponse(r, resp)

NextVersion ==
    \/ \E c \in CallIds, inv \in VersionInvocations : CallOverlapping(c, inv)
    \/ \E r \in jsonRequests, resp \in VersionResponses : JsonResponse(r, resp)

\* ------------------------------------------------------------------ discovery: data

SSDP_SERVICE_TYPE == "urn:schemas-sony-com:service:IRCC:1"
OtherServiceType == "urn:schemas-upnp-org:service:RenderingControl:1"
Responders == 1..MaxResponders
\* the timeouts discover is called with
Timeouts == {DEFAULT_DISCOVER_TIMEOUT, 1000}

\* The descriptor documents, as text: the kind of document and the device it is of.
Document(kind, d) == [kind |-> kind, udn |-> d]
DocumentKinds == {"sony", "sonyPort", "noServiceList", "otherServices", "noDevice", "notXml"}
NoDocument == Document("none", 0)

\* A service element and a parsed descriptor (result.root.device[0]).
Service(serviceType, controlURL) == [serviceType |-> serviceType, controlURL |-> controlURL]
Url(host, port) == [host |-> host, port |-> port]
Descriptor(hasDevice, hasServiceList, services, d) ==
    [hasDevice |-> hasDevice, hasServiceList |-> hasServiceList, services |-> services,
     friendlyName |-> "BRAVIA", UDN |-> d]
NoDescriptor == Descriptor(FALSE, FALSE, << >>, 0)

\* parseString(body, (err, result) => ...): the parsed document, or an error
parseString(body) ==
    CASE body.kind = "sony" ->
            [err |-> FALSE,
             result |-> Descriptor(TRUE, TRUE,
                           <<Service(OtherServiceType, Url("tv", 0)),
                             Service(SSDP_SERVICE_TYPE, Url("tv", 0))>>, body.udn)]
      [] body.kind = "sonyPort" ->
            [err |-> FALSE,
             result |-> Descriptor(TRUE, TRUE,
                           <<Service(SSDP_SERVICE_TYPE, Url("tv", 8080))>>, body.udn)]
      [] body.kind = "noServiceList" ->
            [err |-> FALSE, result |-> Descriptor(TRUE, FALSE, << >>, body.udn)]
      [] body.kind = "otherServices" ->
            [err |-> FALSE,
             result |-> Descriptor(TRUE, TRUE,
                           <<Service(OtherServiceType, Url("hub", 0))>>, body.udn)]
      [] body.kind = "noDevice" ->
            [err |-> FALSE, result |-> Descriptor(FALSE, FALSE, << >>, body.udn)]
      [] OTHER -> [err |-> TRUE, result |-> NoDescriptor]

\* The (error, response, body) Request.get(headers.LOCATION) calls back with.
DescriptorResponses(d) ==
    { [error |-> "none", statusCode |-> 200, body |-> Document(k, d)] : k \in DocumentKinds }
    \cup { [error |-> "none", statusCode |-> 404, body |-> Document("sony", d)],
           [error |-> "ETIMEDOUT", statusCode |-> 0, body |-> NoDocument] }
\* the status codes of the SSDP answers
SsdpStatusCodes == {200, 404}

\* Errors of discover: the message template and the responder it is about.
DiscErr(msg) == [msg |-> msg]
NoDiscErr == DiscErr("")
\* an element of discovered
Device(host, port, friendlyName, udn) ==
    [host |-> host, port |-> port, friendlyName |-> friendlyName, UDN |-> udn]

NoAnswer == [error |-> "none", statusCode |-> 0, body |-> NoDocument]
\* value is history: the elements of the array at the moment of resolve(discovered)
NoScan == [status |-> "idle", value |-> << >>, error |-> NoDiscErr, searches |-> 0]

\* before discover() is called
InitDiscover ==
    /\ scan = NoScan
    /\ discovered = << >>
    /\ ssdp = "idle"
    /\ timer = [armed |-> FALSE, delay |-> 0]
    /\ fetches = {}
    /\ answered = [d \in Responders |-> NoAnswer]

\* ------------------------------------------------------------------ discovery: code

DiscCur == [scan |-> scan, discovered |-> discovered, ssdp |-> ssdp, timer |-> timer]

ApplyDisc(st) ==
    /\ scan' = st.scan
    /\ discovered' = st.discovered
    /\ ssdp' = st.ssdp
    /\ timer' = st.timer
    /\ UNCHANGED <<sendVars, apiVars, confVars, adaptVars, instVars>>

\* a failed that leaves the deadline timer armed
failed_keepTimer(st, error) ==
    LET st1 == [st EXCEPT !.ssdp = "stopped"]
    IN IF st1.scan.status = "scanning"
       THEN [st1 EXCEPT !.scan.status = "failed", !.scan.error = error]
       ELSE st1

\* a failed whose reject overrides an earlier settlement
failed_unguarded(st, error) ==
    LET st1 == [st EXCEPT !.ssdp = "stopped", !.timer.armed = FALSE]
    IN [st1 EXCEPT !.scan.status = "failed", !.scan.error = error]

\* failed = error => { ssdp.stop(); clearTimeout(timer); reject(error); }
failed(st, error) ==
    LET st1 == [st EXCEPT !.ssdp = "stopped", !.timer.armed = FALSE]
    IN IF st1.scan.status = "scanning"
       THEN [st1 EXCEPT !.scan.status = "failed", !.scan.error = error]
       ELSE st1

\* api.port || 80
PortOf(api) == IF api.port = 0 THEN 80 ELSE api.port

\* the body of the try block, for a parsed document
onParsed(st, result) ==
    IF ~result.hasDevice
    THEN failed(st, DiscErr("Unexpected or malformed discovery response: "))
    ELSE IF ~result.hasServiceList THEN st
    ELSE LET hits == {k \in 1..Len(result.services) :
                         result.services[k].serviceType = SSDP_SERVICE_TYPE}
         IN IF hits = {}
            THEN failed(st, DiscErr("Unexpected or malformed discovery response: "))
            ELSE LET k == CHOOSE k \in hits : \A j \in hits : k <= j
                     api == result.services[k].controlURL
                 IN [st EXCEPT !.discovered =
                        Append(@, Device(api.host, PortOf(api),
                                         result.friendlyName, result.UDN))]

\* the callback of Request.get(headers.LOCATION, ...)
onDescriptor(st, resp) ==
    IF resp.error = "none" /\ resp.statusCode = 200
    THEN LET p == parseString(resp.body)
         IN IF ~p.err THEN onParsed(st, p.result)
            ELSE failed(st, DiscErr("Failed to parse the discovery response: "))
    ELSE failed(st, DiscErr("Error retrieving the description metadata for device "))

\* static discover(timeout): the promise executor
Discover(timeout) ==
    /\ scan.status = "idle"
    /\ fetches' = fetches
    /\ answered' = answered
    /\ ApplyDisc([DiscCur EXCEPT !.scan.status = "scanning", !.scan.searches = @ + 1,
                                 !.ssdp = "searching",
                                 !.timer = [armed |-> TRUE, delay |-> timeout]])

\* ssdp.on('response', (headers, statusCode, data) => ...): a device answers the search
SsdpResponse(d, statusCode) ==
    /\ ssdp = "searching"
    /\ d \notin fetches
    /\ answered[d] = NoAnswer
    /\ fetches' = IF statusCode = 200 THEN fetches \cup {d} ELSE fetches
    /\ answered' = IF statusCode = 200 THEN answered
                   ELSE [answered EXCEPT ![d] = [NoAnswer EXCEPT !.statusCode = statusCode]]
    /\ ApplyDisc(DiscCur)

\* the descriptor fetch of responder d completes
DescriptorResponse(d, resp) ==
    /\ d \in fetches
    /\ fetches' = fetches \ {d}
    /\ answered' = [answered EXCEPT ![d] = resp]
    /\ ApplyDisc(onDescriptor(DiscCur, resp))

\* setTimeout(() => { ssdp.stop(); resolve(discovered); }, timeout) fires
DeadlineFires ==
    /\ timer.armed
    /\ UNCHANGED <<fetches, answered>>
    /\ ApplyDisc(LET st == [DiscCur EXCEPT !.ssdp = "stopped", !.timer.armed = FALSE]
                 IN IF st.scan.status = "scanning"
                    THEN [st EXCEPT !.scan.status = "resolved",
                                    !.scan.value = st.discovered]
                    ELSE st)

NextDiscover ==
    \/ \E timeout \in Timeouts : Discover(timeout)
    \/ \E d \in Responders, statusCode \in SsdpStatusCodes : SsdpResponse(d, statusCode)
    \/ \E d \in Responders : \E resp \in DescriptorResponses(d) : DescriptorResponse(d, resp)
    \/ DeadlineFires

\* ------------------------------------------------------------------ the adapter

\* the state changes whose command is followed by a status poll, and the
\* variable that holds the timeout: <kind>Timeout
FollowUpKinds ==
    {"powerStatus", "playContent", "terminateApps", "activeApp", "volumeMute", "volumeSet"}
\* the last branch of stateChange: device.send(id), nothing follows
StateChangeKinds == FollowUpKinds \cup {"send"}
\* the delay of the follow-up timeout, in milliseconds
FollowUpDelay(kind) ==
    CASE kind \in {"powerStatus", "playContent"} -> 500
      [] kind = "terminateApps" -> 1000
      [] OTHER -> 2000
NoHandle == 0
\* a device command of the adapter; n identifies it and the timeout it schedules
Command(kind, n) == [kind |-> kind, n |-> n]
\* the timeout a command schedules when it resolves
Timeout(cmd) == [kind |-> cmd.kind, n |-> cmd.n, delay |-> FollowUpDelay(cmd.kind)]

InitAdapter ==
    /\ phase = "loaded"
    /\ statusInterval = "none"
    /\ timeoutHandle = [k \in FollowUpKinds |-> NoHandle]
    /\ commands = {}
    /\ armed = {}
    /\ issued = 0
    /\ ticks = 0
    /\ polls = 0
    /\ changes = << >>
    /\ requested = {}
    /\ gates = {}
    /\ pings = {}
    /\ queries = {}
    /\ isConnected = "null"
    /\ states = [connection |-> "unset", powerStatusActive |-> "unset",
                 playingContentInfo |-> "unset"]
    /\ pinged = {}
    /\ queried = {}
    /\ written = << >>

\* checkStatus(): ping.probe(adapter.config.ip, ..., callback)
checkStatus ==
    /\ polls' = polls + 1
    /\ pings' = pings \cup {polls + 1}

\* ready: checkStatus(); statusInterval = setInterval(checkStatus, 10000)
main ==
    /\ phase = "loaded"
    /\ phase' = "ready"
    /\ checkStatus
    /\ statusInterval' = "armed"
    /\ UNCHANGED <<timeoutHandle, commands, armed, issued, ticks>>
    /\ UNCHANGED <<changeVars, pollVars, clientVars>>

\* the state stateChange is called with: null (the state was deleted),
\* {ack: true} or {ack: false}
ChangeStates == {"null", "ack", "command"}
\* the state changes whose command waits for ifPowerIsActiv
GatedKinds == {"playContent", "terminateApps", "activeApp", "volumeSet"}
\* a pending read of a gated state change: adapter.getState or adapter.getObject
Gate(kind, n, stage) == [kind |-> kind, n |-> n, stage |-> stage]
Change(kind, state) == [kind |-> kind, state |-> state, power |-> "none"]

\* a handler that looks at the id only
stateChange_anyState(kind, state) ==
    /\ phase = "ready"
    /\ issued < MaxStateChanges
    /\ issued' = issued + 1
    /\ changes' = Append(changes, Change(kind, state))
    /\ IF kind \in GatedKinds
       THEN /\ gates' = gates \cup {Gate(kind, issued + 1, "getState")}
            /\ UNCHANGED <<commands, requested>>
       ELSE /\ requested' = requested \cup {issued + 1}
            /\ commands' = IF kind = "send" THEN commands
                           ELSE commands \cup {Command(kind, issued + 1)}
            /\ UNCHANGED gates
    /\ UNCHANGED <<timerVars, polls, pings, pollVars, clientVars>>

\* stateChange(id, state): if (state && !state.ack), the branch of the id's kind
\* calls the device, at once or after ifPowerIsActiv
stateChange(kind, state) ==
    /\ phase = "ready"
    /\ issued < MaxStateChanges
    /\ issued' = issued + 1
    /\ changes' = Append(changes, Change(kind, state))
    /\ IF state # "command"
       THEN UNCHANGED <<commands, requested, gates>>
       ELSE IF kind \in GatedKinds
       THEN /\ gates' = gates \cup {Gate(kind, issued + 1, "getState")}
            /\ UNCHANGED <<commands, requested>>
       ELSE /\ requested' = requested \cup {issued + 1}
            /\ commands' = IF kind = "send" THEN commands
                           ELSE commands \cup {Command(kind, issued + 1)}
            /\ UNCHANGED gates
    /\ UNCHANGED <<timerVars, polls, pings, pollVars, clientVars>>

\* what adapter.getState("info.powerStatusActive", ...) calls back with: an
\* error, a state whose val is true or false, or no state
PowerReads == {"err", "true", "false", "null"}

\* a gate that lets every read without error pass
ifPowerIsActiv_always(g, read) ==
    /\ g \in gates
    /\ g.stage = "getState"
    /\ changes' = [changes EXCEPT ![g.n].power = read]
    /\ IF read = "err"
       THEN gates' = gates \ {g} /\ UNCHANGED <<commands, requested>>
       ELSE IF g.kind = "terminateApps"
       THEN /\ gates' = gates \ {g}
            /\ commands' = commands \cup {Command(g.kind, g.n)}
            /\ requested' = requested \cup {g.n}
       ELSE /\ gates' = (gates \ {g}) \cup {Gate(g.kind, g.n, "getObject")}
            /\ UNCHANGED <<commands, requested>>
    /\ UNCHANGED <<timerVars, issued, polls, pings, pollVars, clientVars>>

\* ifPowerIsActiv: the callback of adapter.getState; powerState.val of no state
\* throws.  The callback it is given calls the device (terminateApps) or reads
\* the object of the id (turnOverIfPowerIsActiv, turnVolume).
ifPowerIsActiv(g, read) ==
    /\ g \in gates
    /\ g.stage = "getState"
    /\ changes' = [changes EXCEPT ![g.n].power = read]
    /\ IF read # "true"
       THEN gates' = gates \ {g} /\ UNCHANGED <<commands, requested>>
       ELSE IF g.kind = "terminateApps"
       THEN /\ gates' = gates \ {g}
            /\ commands' = commands \cup {Command(g.kind, g.n)}
            /\ requested' = requested \cup {g.n}
       ELSE /\ gates' = (gates \ {g}) \cup {Gate(g.kind, g.n, "getObject")}
            /\ UNCHANGED <<commands, requested>>
    /\ UNCHANGED <<timerVars, issued, polls, pings, pollVars, clientVars>>

\* turnOverIfPowerIsActiv, turnVolume: the callback of adapter.getObject
turnOverCall(g, err) ==
    /\ g \in gates
    /\ g.stage = "getObject"
    /\ gates' = gates \ {g}
    /\ IF err
       THEN UNCHANGED <<commands, requested>>
       ELSE /\ commands' = commands \cup {Command(g.kind, g.n)}
            /\ requested' = requested \cup {g.n}
    /\ UNCHANGED <<timerVars, issued, polls, pings, changes, pollVars, clientVars>>

\* .then(body => <kind>Timeout = setTimeout(() => checkStatus(), delay))
commandResolved(cmd) ==
    /\ cmd \in commands
    /\ commands' = commands \ {cmd}
    /\ timeoutHandle' = [timeoutHandle EXCEPT ![cmd.kind] = cmd.n]
    /\ armed' = armed \cup {Timeout(cmd)}
    /\ UNCHANGED <<phase, statusInterval, issued, ticks, polls, pings>>
    /\ UNCHANGED <<changeVars, pollVars, clientVars>>

\* .catch(err => adapter.log.error(err))
commandRejected(cmd) ==
    /\ cmd \in commands
    /\ commands' = commands \ {cmd}
    /\ UNCHANGED <<timerVars, issued, polls, pings>>
    /\ UNCHANGED <<changeVars, pollVars, clientVars>>

\* a follow-up timeout fires: () => checkStatus()
timeoutFires(t) ==
    /\ t \in armed
    /\ armed' = armed \ {t}
    /\ checkStatus
    /\ UNCHANGED <<phase, statusInterval, timeoutHandle, commands, issued, ticks>>
    /\ UNCHANGED <<changeVars, pollVars, clientVars>>

\* the status interval ticks: checkStatus
intervalFires ==
    /\ statusInterval = "armed"
    /\ ticks < MaxTicks
    /\ ticks' = ticks + 1
    /\ checkStatus
    /\ UNCHANGED <<phase, statusInterval, timeoutHandle, commands, armed, issued>>
    /\ UNCHANGED <<changeVars, pollVars, clientVars>>

\* unload: statusInterval && clearInterval(statusInterval);
\* <kind>Timeout && clearTimeout(<kind>Timeout) for the six variables
unload ==
    /\ phase = "ready"
    /\ phase' = "unloaded"
    /\ statusInterval' = IF statusInterval = "armed" THEN "cleared" ELSE statusInterval
    /\ armed' = {t \in armed : timeoutHandle[t.kind] # t.n}
    /\ UNCHANGED <<timeoutHandle, commands, issued, ticks, polls, pings>>
    /\ UNCHANGED <<changeVars, pollVars, clientVars>>

NextAdapter ==
    \/ main
    \/ \E kind \in StateChangeKinds, state \in ChangeStates : stateChange(kind, state)
    \/ \E g \in gates, read \in PowerReads : ifPowerIsActiv(g, read)
    \/ \E g \in gates, err \in BOOLEAN : turnOverCall(g, err)
    \/ \E cmd \in commands : commandResolved(cmd)
    \/ \E cmd \in commands : commandRejected(cmd)
    \/ \E t \in armed : timeoutFires(t)
    \/ intervalFires
    \/ unload

\* the adapter as far as commands go: state changes, the reads before a gated
\* command, and the promises of the commands
NextGate ==
    \/ main
    \/ \E kind \in StateChangeKinds, state \in ChangeStates : stateChange(kind, state)
    \/ \E g \in gates, read \in PowerReads : ifPowerIsActiv(g, read)
    \/ \E g \in gates, err \in BOOLEAN : turnOverCall(g, err)
    \/ \E cmd \in commands : commandResolved(cmd)
    \/ \E cmd \in commands : commandRejected(cmd)

\* ------------------------------------------------------------------ the status poll

\* what ping.probe calls back with: an error, a result that is alive or not
\* ("dead"), or both
PingOutcomes ==
    {[err |-> e, result |-> r] : e \in BOOLEAN, r \in {"none", "alive", "dead"}}
        \ {[err |-> FALSE, result |-> "none"]}
\* result.alive as the value setConnected gets
Alive(outcome) == IF outcome.result = "alive" THEN "true" ELSE "false"

\* the device reads of a poll
PollReads == {"getPowerStatus", "getPlayingContentInfo", "getVolumeInformation"}
\* a poll that reads the device whatever the ping said
PollReadsOf_always(outcome) == PollReads
\* if (result.alive) { device.getPowerStatus() ...; device.getPlayingContentInfo() ...;
\* device.getVolumeInformation() ... }
PollReadsOf(outcome) == IF outcome.result = "alive" THEN PollReads ELSE {}
Query(p, op) == [poll |-> p, op |-> op]

\* the connection as setConnected sees it: the module variable, the store entry
\* and the writes so far
Connection == [isConnected |-> isConnected, connection |-> states.connection,
               written |-> written]
\* a setConnected that writes on every call
setConnected_always(c, value) ==
    [isConnected |-> value, connection |-> value, written |-> Append(c.written, value)]
\* setConnected(_isConnected)
setConnected(c, value) ==
    IF c.isConnected # value
    THEN [isConnected |-> value, connection |-> value, written |-> Append(c.written, value)]
    ELSE c

\* the callback of ping.probe in checkStatus
pingAnswered(p, outcome) ==
    /\ p \in pings
    /\ pings' = pings \ {p}
    /\ pinged' = pinged \cup {[poll |-> p, outcome |-> outcome]}
    /\ LET onErr == IF outcome.err THEN setConnected(Connection, "false") ELSE Connection
           onResult == IF outcome.result # "none"
                       THEN setConnected(onErr, Alive(outcome)) ELSE onErr
       IN  /\ isConnected' = onResult.isConnected
           /\ written' = onResult.written
           /\ states' =
                 IF outcome.result = "dead"
                 THEN [connection |-> onResult.connection, powerStatusActive |-> "false",
                       playingContentInfo |-> ""]
                 ELSE [states EXCEPT !.connection = onResult.connection]
    /\ queries' = queries \cup {Query(p, op) : op \in PollReadsOf(outcome)}
    /\ queried' = queried \cup {Query(p, op) : op \in PollReadsOf(outcome)}
    /\ UNCHANGED <<timerVars, commands, issued, polls, changeVars, clientVars>>

\* how the promise of a device read settles: getPowerStatus resolves with a
\* status that is 'active' or not, every read resolves or rejects
QueryAnswers(op) ==
    IF op = "getPowerStatus" THEN {"active", "standby", "rejected"}
    ELSE {"resolved", "rejected"}

\* the .then and .catch callbacks of the device reads in checkStatus;
\* getPlayingContentInfo resolves to the title, a string without a title field
queryAnswered(q, answer) ==
    /\ q \in queries
    /\ queries' = queries \ {q}
    /\ states' =
          CASE q.op = "getPowerStatus" ->
                  [states EXCEPT !.powerStatusActive =
                                     IF answer = "active" THEN "true" ELSE "false"]
            [] q.op = "getPlayingContentInfo" ->
                  [states EXCEPT !.playingContentInfo =
                                     IF answer = "resolved" THEN "undefined"
                                     ELSE "Illegal State"]
            [] OTHER -> states
    /\ UNCHANGED <<timerVars, commands, issued, polls, pings, changeVars, clientVars>>
    /\ UNCHANGED <<isConnected, pinged, queried, written>>

\* the adapter as far as the poll goes: start, interval ticks, ping answers and
\* the answers of the device reads
NextPoll ==
    \/ main
    \/ intervalFires
    \/ \E p \in pings, outcome \in PingOutcomes : pingAnswered(p, outcome)
    \/ \E q \in queries : \E answer \in QueryAnswers(q.op) : queryAnswered(q, answer)

\* ------------------------------------------------------------------ two client instances

\* the fields of a client after new Bravia(host, port, psk, timeout)
newClient(conf) ==
    [codes |-> << >>,
     sends |-> [i \in SendIds |->
                  [status |-> "idle", codes |-> << >>, index |-> 0, error |-> NoError]],
     requests |-> {}, timers |-> {},
     fetchCount |-> [i \in SendIds |-> 0],
     settled |-> [i \in SendIds |-> NoSettled],
     log |-> [i \in SendIds |-> << >>],
     map |-> [ns \in Namespaces |-> NoEntry],
     calls |-> [c \in CallIds |-> NoCall],
     reqs |-> {},
     fetches |-> [ns \in Namespaces |-> 0],
     json |-> [c \in CallIds |-> NoJson],
     config |-> conf, wire |-> {}]
\* the client of another device
PeerConfig == constructor("192.168.1.6", "80", "s3cret", 5000)
InitPeer == peer = newClient(PeerConfig)

Instances == {1, 2}
\* this: instance 1 is the client of the variables, instance 2 the peer
This(k) ==
    IF k = 1
    THEN [codes |-> _codes, sends |-> sends, requests |-> requests, timers |-> timers,
          fetchCount |-> fetchCount, settled |-> settled, log |-> log,
          map |-> apiInfoMap, calls |-> calls, reqs |-> jsonRequests,
          fetches |-> apiFetchCount, json |-> lastJson,
          config |-> config, wire |-> wire]
    ELSE peer
\* the fields of the variables take the values of st
SetFields(st) ==
    /\ _codes' = st.codes
    /\ sends' = st.sends
    /\ requests' = st.requests
    /\ timers' = st.timers
    /\ fetchCount' = st.fetchCount
    /\ settled' = st.settled
    /\ log' = st.log
    /\ apiInfoMap' = st.map
    /\ calls' = st.calls
    /\ jsonRequests' = st.reqs
    /\ apiFetchCount' = st.fetches
    /\ lastJson' = st.json
    /\ config' = st.config
    /\ wire' = st.wire
    /\ UNCHANGED <<started, lastResp>>
\* caches that live on the prototype: what one instance stores, every instance has
SetThis_prototype(k, st) ==
    /\ IF k = 1
       THEN SetFields(st) /\ peer' = [peer EXCEPT !.codes = st.codes, !.map = st.map]
       ELSE /\ peer' = st
            /\ SetFields([This(1) EXCEPT !.codes = st.codes, !.map = st.map])
    /\ UNCHANGED <<discVars, adaptVars>>
\* this._codes, this.apiInfoMap, ...: an operation assigns to the fields of its
\* own instance
SetThis(k, st) ==
    /\ IF k = 1
       THEN SetFields(st) /\ peer' = peer
       ELSE peer' = st /\ UNCHANGED <<sendVars, apiVars, confVars>>
    /\ UNCHANGED <<discVars, adaptVars>>

\* no structured operation, and no send, has been invoked on any instance
NoCalls == \A k \in Instances : \A c \in CallIds : This(k).calls[c].status = "idle"
NoSends == \A k \in Instances : \A i \in SendIds : This(k).sends[i].status = "idle"

\* instance k: send(command)
InstanceSend(k, c) ==
    /\ NoCalls
    /\ This(k).sends[1].status = "idle"
    /\ SetThis(k, executor(This(k), 1, [type |-> "string", str |-> c, list |-> << >>]))
\* instance k: system.invoke('getRemoteControllerInfo') settles
InstanceTableAnswer(k, r, res) ==
    /\ r \in This(k).requests
    /\ r.kind = "table"
    /\ SetThis(k, onTableAnswer(This(k), r, res))
\* instance k: a POST to /sony/IRCC is answered
InstanceIRCCAnswer(k, r, resp) ==
    /\ r \in This(k).requests
    /\ r.kind = "IRCC"
    /\ SetThis(k, onIRCCAnswer(This(k), r, resp))
\* instance k: the inter-command timer fires
InstanceDelay(k, t) ==
    /\ t \in This(k).timers
    /\ SetThis(k, onDelay(This(k), t))
\* instance k: getSupportedApiVersion or getContentList
InstanceCall(k, inv) ==
    /\ NoSends
    /\ This(k).calls[1].status = "idle"
    /\ SetThis(k, invoke(This(k), 1, inv))
\* instance k: a POST to /sony/<service> is answered
InstanceJsonAnswer(k, r, resp) ==
    /\ r \in This(k).reqs
    /\ SetThis(k, onJsonAnswer(This(k), r, resp))

NextInstances ==
    \/ \E k \in Instances, c \in Commands : InstanceSend(k, c)
    \/ \E k \in Instances : \E r \in This(k).requests, res \in InvokeResults :
          InstanceTableAnswer(k, r, res)
    \/ \E k \in Instances : \E r \in This(k).requests, resp \in IRCCResponses :
          InstanceIRCCAnswer(k, r, resp)
    \/ \E k \in Instances : \E t \in This(k).timers : InstanceDelay(k, t)
    \/ \E k \in Instances, inv \in VersionInvocations : InstanceCall(k, inv)
    \/ \E k \in Instances : \E r \in This(k).reqs, resp \in VersionResponses :
          InstanceJsonAnswer(k, r, resp)

Init == InitSend /\ InitApi /\ InitDiscover /\ InitConfig /\ InitAdapter /\ InitPeer

SpecSend == Init /\ [][NextSend]_vars
SpecApi == Init /\ [][NextApi]_vars
SpecVersion == Init /\ [][NextVersion]_vars

\* The two paths share no field of the client: a run of the client in which
\* commands are sent, or one in which structured operations are invoked.
NextClient ==
    \/ started = 0 /\ NextSend
    \/ (\A i \in SendIds : sends[i].status = "idle") /\ NextApi
SpecClient == Init /\ [][NextClient]_vars
\* A client constructed with any of the configurations; commands are sent one
\* string at a time, or structured operations are invoked.
InitAny ==
    /\ InitSend /\ InitApi /\ InitDiscover /\ InitAdapter /\ InitPeer
    /\ config \in Configs
    /\ wire = {}
NextConfig ==
    \/ \E i \in SendIds, c \in Commands :
          started = 0 /\ CallSend(i, [type |-> "string", str |-> c, list |-> << >>])
    \/ \E r \in requests, res \in InvokeResults : RemoteControllerInfoResponse(r, res)
    \/ \E r \in requests, resp \in IRCCResponses : IRCCResponse(r, resp)
    \/ \E t \in timers : DelayElapsed(t)
    \/ (\A i \in SendIds : sends[i].status = "idle") /\ NextApi
SpecInfo == Init /\ [][NextInfo]_vars
\* The two caches under overlapping operations: sends that overlap, or version
\* resolutions that overlap.
NextCaches ==
    \/ started = 0 /\ NextSend
    \/ (\A i \in SendIds : sends[i].status = "idle") /\ NextVersion
SpecCaches == Init /\ [][NextCaches]_vars
SpecAdapter == Init /\ [][NextAdapter]_vars
SpecGate == Init /\ [][NextGate]_vars
SpecPoll == Init /\ [][NextPoll]_vars
SpecInstances == Init /\ [][NextInstances]_vars
SpecConfig == InitAny /\ [][NextConfig]_vars
\* the deadline timer, once armed and not cleared, fires
SpecDiscover == Init /\ [][NextDiscover]_vars /\ WF_vars(DeadlineFires)

\* ------------------------------------------------------------------ claims: send

\* the requests and timers that belong to invocation i
PendingOf(i) == {r \in requests : r.owner = i}
ArmedOf(i) == {t \in timers : t.owner = i}
EventsOf(i, ev) == {k \in 1..Len(log[i]) : log[i][k].ev = ev}
OthersIdle(i) == \A j \in SendIds \ {i} : sends[j].status = "idle"
TotalFetches ==
    LET upTo[k \in 0..MaxSends] == IF k = 0 THEN 0 ELSE upTo[k - 1] + fetchCount[k]
    IN upTo[MaxSends]

\* the literal-code shape as the specification words it:
\* five "A", thirteen alphanumeric characters, "=="
LiteralShape(c) ==
    /\ Len(c) = 20
    /\ SubSeq(c, 1, 5) = <<"A","A","A","A","A">>
    /\ \A k \in 6..18 : c[k] \in AlphaNum
    /\ SubSeq(c, 19, 20) = <<"=","=">>

\* what may be transmitted for command c: itself if literal, else a listed value
Sendable(c) ==
    IF LiteralShape(c) THEN {c}
    ELSE {t[k].value : k \in {n \in 1..Len(FullTable) : FullTable[n].name = c}, t \in {FullTable}}

C1_State ==
    \A i \in SendIds :
        LET s == sends[i]
            o == settled[i]
        IN /\ ~o.ok => s.status = "rejected"
           /\ s.status = "rejected" =>
                /\ PendingOf(i) = {}
                /\ ArmedOf(i) = {}
                /\ s.index >= 1
                /\ \A k \in 1..Len(log[i]) : log[i][k].idx <= s.index
                /\ Cardinality(EventsOf(i, "fail")) <= 1
                /\ \/ ~o.ok /\ s.error = o.error
                   \/ /\ o.ok
                      /\ o.src = "getIRCCCodes"
                      /\ \A k \in 1..Len(o.value) : o.value[k].name # s.codes[s.index]
                      /\ s.error = Err("Unknown IRCC code ", s.codes[s.index], 0)

C1_Step ==
    \A i \in SendIds :
        sends[i].status = "rejected" =>
            /\ sends'[i] = sends[i]
            /\ log'[i] = log[i]
            /\ fetchCount'[i] = fetchCount[i]

\* C1: when a command of a send sequence fails (the table fetch fails, the name
\* is unknown, or the transmission is rejected), the promise rejects with that
\* failure's error, nothing of the invocation is pending any more, and from
\* then on the invocation resolves and transmits no further command.
SendStopsAtFirstFailure == []C1_State /\ [][C1_Step]_vars

\* C1 witness: a list of three whose second command was transmitted and rejected
SendStopsAtFirstFailure_Witness ==
    \E i \in SendIds :
        /\ sends[i].status = "rejected"
        /\ Len(sends[i].codes) = 3
        /\ sends[i].index = 2
        /\ settled[i].src = "_request"
        /\ ~settled[i].ok

\* C2: for every invocation, also beside a concurrent one: at most one
\* transmission is in flight, none while its delay timer is armed; the delay
\* starts right after a transmission that completed successfully; a
\* transmission starts first or right after the delay has elapsed; the k-th
\* transmission carries the k-th command of the list.
SendIsSequential ==
    \A i \in SendIds :
        /\ Cardinality(PendingOf(i)) + Cardinality(ArmedOf(i)) <= 1
        /\ \A k \in 1..Len(log[i]) :
             LET e == log[i][k]
             IN /\ e.ev = "tx" =>
                     /\ e.idx \in 1..Len(sends[i].codes)
                     /\ e.code \in Sendable(sends[i].codes[e.idx])
                     /\ IF k = 1 THEN e.idx = 1
                        ELSE /\ log[i][k - 1].ev = "delayEnd"
                             /\ e.idx = log[i][k - 1].idx + 1
                /\ e.ev \in {"done", "fail"} =>
                     k > 1 /\ log[i][k - 1].ev = "tx" /\ log[i][k - 1].idx = e.idx
                /\ e.ev = "delayStart" =>
                     k > 1 /\ log[i][k - 1].ev = "done" /\ log[i][k - 1].idx = e.idx
                /\ e.ev = "delayEnd" =>
                     k > 1 /\ log[i][k - 1].ev = "delayStart" /\ log[i][k - 1].idx = e.idx

\* C2 witness: an invocation transmits its second command while another
\* invocation has a request in flight
SendIsSequential_Witness ==
    \E i, j \in SendIds :
        /\ i # j
        /\ \E r \in PendingOf(i) : r.kind = "IRCC" /\ r.idx = 2
        /\ PendingOf(j) # {}

\* C3: a command of the literal-code shape is transmitted as it is, and no
\* Command Table fetch is issued for it.
LiteralSentVerbatim ==
    /\ \A r \in requests :
         LET c == sends[r.owner].codes[r.idx]
         IN LiteralShape(c) => r.kind = "IRCC" /\ r.code = c
    /\ \A i \in SendIds :
         /\ \A j \in 1..sends[i].index :
              LiteralShape(sends[i].codes[j]) =>
                  \E k \in 1..Len(log[i]) : log[i][k] = Event("tx", j, sends[i].codes[j])
         /\ fetchCount[i] <=
              Cardinality({j \in 1..sends[i].index : ~LiteralShape(sends[i].codes[j])})

\* C3 witness: a literal code in flight as the second command, the table cached
LiteralSentVerbatim_Witness ==
    \E r \in requests :
        /\ r.kind = "IRCC"
        /\ r.idx = 2
        /\ sends[r.owner].codes[2] = CodeLiteral
        /\ r.code = CodeLiteral
        /\ Len(_codes) > 0

C4_State ==
    \A i \in SendIds :
        OthersIdle(i) =>
            /\ fetchCount[i] <= 1
            /\ fetchCount[i] = 1 <=>
                 \E j \in 1..sends[i].index : ~LiteralShape(sends[i].codes[j])

C4_Step ==
    /\ fetchCount' # fetchCount => Len(_codes) = 0
    /\ (Len(_codes) > 0 /\ \A r \in requests : r.kind # "table") =>
          _codes' = _codes /\ fetchCount' = fetchCount

NameResolvedExactly ==
    \A i \in SendIds :
        LET s == sends[i]
            o == settled[i]
        IN (s.index >= 1 /\ ~LiteralShape(s.codes[s.index]) /\ o.src = "getIRCCCodes" /\ o.ok) =>
             LET c == s.codes[s.index]
                 named == {k \in 1..Len(o.value) : o.value[k].name = c}
             IN IF named = {}
                THEN /\ s.status = "rejected"
                     /\ s.error = Err("Unknown IRCC code ", c, 0)
                     /\ PendingOf(i) = {}
                     /\ \A k \in 1..Len(log[i]) : log[i][k].idx < s.index
                ELSE /\ s.status = "running"
                     /\ \E k \in named :
                          /\ \A n \in named : k <= n
                          /\ PendingOf(i) =
                               {[kind |-> "IRCC", owner |-> i, idx |-> s.index,
                                 code |-> o.value[k].value]}

\* C5 witness: "volumeup" is rejected as unknown against a table listing "VolumeUp"
NameResolvedExactly_Witness ==
    \E i \in SendIds :
        /\ sends[i].status = "rejected"
        /\ sends[i].codes[sends[i].index] = NameLower
        /\ settled[i].value = FullTable
        /\ sends[i].error = Err("Unknown IRCC code ", NameLower, 0)

\* ------------------------------------------------------------------ claims: structured calls

\* the table's first service lists the method
Listed(apiInfo, method) ==
    /\ Len(apiInfo) > 0
    /\ \E k \in 1..Len(apiInfo[1].apis) :
          apiInfo[1].apis[k].name = method /\ Len(apiInfo[1].apis[k].versions) > 0
\* the version string of the last element of the method's version list
LastVersion(apiInfo, method) ==
    LET k == CHOOSE k \in 1..Len(apiInfo[1].apis) : apiInfo[1].apis[k].name = method
        versions == apiInfo[1].apis[k].versions
    IN versions[Len(versions)].version
VersionCalls == {c \in CallIds : calls[c].inv.op = "getSupportedApiVersion"}
ValueOf(version) == [text |-> <<version>>, payload |-> NoPayload]

\* C6: a getSupportedApiVersion(namespace, method) call that returns, returns the
\* version string of the last element of the method's version list when the
\* namespace's table lists the method; when the table is a service list that does
\* not list the method the call returns "1.0" and does not fail.
C6_Step ==
    \A c \in CallIds :
        LET inv == calls'[c].inv
            table == apiInfoMap'[inv.schema].value
            fetched == /\ lastJson'[c].kind = "resolved"
                       /\ lastJson'[c].body.type = "object"
                       /\ "result" \in lastJson'[c].body.keys
        IN (inv.op = "getSupportedApiVersion" /\ calls[c].status # calls'[c].status) =>
              /\ calls'[c].status = "resolved" =>
                    /\ Listed(table, inv.method)
                          => calls'[c].value = ValueOf(LastVersion(table, inv.method))
                    /\ ~Listed(table, inv.method) => calls'[c].value = ValueOf("1.0")
              /\ calls'[c].status = "rejected" =>
                    \/ calls[c].status = "running" /\ ~fetched
                    \/ Len(table) = 0
CallsOf(ns) == {c \in CallIds : calls[c].status # "idle" /\ SchemaOf(calls[c].inv) = ns}
FetchesInFlight(ns) ==
    {r \in jsonRequests : r.method = "getSupportedApiInfo" /\ r.schema = ns}

C7_State ==
    \A ns \in Namespaces :
        /\ apiFetchCount[ns] <= Cardinality(CallsOf(ns))
        /\ apiInfoMap[ns].has => apiFetchCount[ns] >= 1
        /\ \A c \in CallIds : Cardinality({r \in FetchesInFlight(ns) : r.owner = c}) <= 1
C7_Step ==
    \A ns \in Namespaces :
        /\ apiFetchCount'[ns] # apiFetchCount[ns]
              => ~apiInfoMap[ns].has /\ apiFetchCount'[ns] = apiFetchCount[ns] + 1
        /\ apiInfoMap[ns].has => apiInfoMap'[ns].has
NonOk(c) == lastResp[c].error = "none" /\ lastResp[c].method # "" /\ lastResp[c].statusCode # 200
StatusError(c) ==
    JsonErr(". Response error, status code: ", lastResp[c].method, "",
            lastResp[c].statusCode, "")

\* C8: a structured call answered with a status other than 200 rejects with the
\* error made of the called method and the status code, for every body: nothing
\* of the body is in the error and an undecodable body changes nothing.
NonOkStatusRejectsWithoutBody ==
    \A c \in CallIds :
        NonOk(c) => lastJson[c].kind = "rejected" /\ lastJson[c].error = StatusError(c)
\* a 500 whose body holds an error pair, and a 500 whose body is no JSON
NonOkStatusRejectsWithoutBody_Witness ==
    \E c \in CallIds :
        /\ NonOk(c)
        /\ lastResp[c].body \in {RawError, RawHtml}
        /\ lastJson[c].kind = "rejected"
        /\ calls[c].status = "rejected"

\* the decoded body of the last answer to call c
Decoded(c) == JSONparse(lastResp[c].body)
HasErrorPair(c) ==
    /\ lastResp[c].error = "none"
    /\ lastResp[c].statusCode = 200
    /\ Decoded(c).ok
    /\ "error" \in Decoded(c).body.keys

\* C9: a transport error, a status other than 200 and a body with an error pair
\* each make the structured call fail, with three different errors: the transport
\* error, the status error, and an error made of the pair's message.
ThreeFailureKinds ==
    \A c \in CallIds :
        /\ lastResp[c].error # "none"
              => /\ lastJson[c].kind = "rejected"
                 /\ lastJson[c].error = JsonErr(lastResp[c].error, "", "", 0, "")
        /\ NonOk(c) => lastJson[c].kind = "rejected" /\ lastJson[c].error = StatusError(c)
        /\ HasErrorPair(c)
              => /\ lastJson[c].kind = "rejected"
                 /\ lastJson[c].error = JsonErr(Decoded(c).body.error.message, "", "", 0, "")

\* the operations with the common rule
FacadeOps == {"getInterfaceInformation", "getPowerStatus", "setPowerStatus", "getSchemeList",
              "getSourceList", "getSupportedApiInfo", "getContentList", "setPlayContent",
              "getApplicationList", "setActiveApp", "terminateApps"}
\* the last answer to call c was to the operation's own request and decoded to an
\* object without result
OwnBodyWithoutResult(c) ==
    /\ lastResp[c].method = calls[c].inv.op
    /\ lastResp[c].error = "none"
    /\ lastResp[c].statusCode = 200
    /\ Decoded(c).ok
    /\ Decoded(c).body.type = "object"
    /\ "result" \notin Decoded(c).body.keys

OkObject(c) ==
    /\ lastResp[c].error = "none"
    /\ lastResp[c].statusCode = 200
    /\ Decoded(c).ok
    /\ Decoded(c).body.type = "object"
PlayingCalls == {c \in CallIds : calls[c].inv.op = "getPlayingContentInfo"}

OnlyPlayingContentInfoForgives ==
    \A c \in CallIds :
        /\ (/\ calls[c].status # "idle"
            /\ calls[c].inv.op # "getPlayingContentInfo"
            /\ HasErrorPair(c)
            /\ "result" \notin Decoded(c).body.keys)
              => calls[c].status = "rejected"
        /\ (lastResp[c].error # "none" \/ NonOk(c)) => calls[c].status = "rejected"
\* an operation other than getPlayingContentInfo got the error pair and rejected
OnlyPlayingContentInfoForgives_Witness ==
    \E c \in CallIds :
        /\ calls[c].inv.op = "getPowerStatus"
        /\ HasErrorPair(c)
        /\ calls[c].status = "rejected"
        /\ calls[c].error.text = RawError

\* ------------------------------------------------------------------ claims: no retry

\* the transmissions of command idx in invocation i of send
TxOf(i, idx) == {k \in EventsOf(i, "tx") : log[i][k].idx = idx}
\* the times invocation c of a structured operation posted method
PostsOf(c, method) == {k \in 1..Len(calls[c].sent) : calls[c].sent[k] = method}
\* what one invocation of an operation may post, in this order
MayPost(inv) ==
    IF inv.op = "getContentList" THEN <<"getSupportedApiInfo", "getContentList">>
    ELSE IF inv.op = "getSupportedApiVersion" THEN <<"getSupportedApiInfo">>
    ELSE <<inv.op>>
IsPrefix(p, q) == Len(p) <= Len(q) /\ SubSeq(q, 1, Len(p)) = p
\* each command is transmitted at most once, each structured request posted at most once
RequestsOnce ==
    /\ \A i \in SendIds : \A idx \in 1..MaxLen : Cardinality(TxOf(i, idx)) <= 1
    /\ \A c \in CallIds :
          /\ \A method \in {"getSupportedApiInfo", calls[c].inv.op} :
                Cardinality(PostsOf(c, method)) <= 1
          /\ Len(calls[c].sent) <= Len(MayPost(calls[c].inv))
\* an operation that has rejected has nothing in flight and nothing scheduled
NothingAfterReject ==
    /\ \A i \in SendIds :
          sends[i].status = "rejected" => PendingOf(i) = {} /\ ArmedOf(i) = {}
    /\ \A c \in CallIds :
          calls[c].status = "rejected" => {r \in jsonRequests : r.owner = c} = {}

\* C13 as stated: every request of an invocation is issued at most once, the
\* table fetch of a send among them, and nothing is re-sent after a failure.
NoRequestTwice ==
    /\ RequestsOnce
    /\ NothingAfterReject
    /\ \A i \in SendIds : fetchCount[i] <= 1

\* C13, amended: one invocation transmits each of its commands once and posts each
\* of its structured requests once (the version-table fetch before its own
\* request); nothing is in flight or scheduled once it has rejected; a send issues
\* at most one table fetch per command it has reached, each when it turns to a new
\* command and the cache is empty, and at most one altogether when no other send
\* overlaps it.
C13_State ==
    /\ RequestsOnce
    /\ NothingAfterReject
    /\ \A c \in CallIds :
          \/ IsPrefix(calls[c].sent, MayPost(calls[c].inv))
          \/ calls[c].sent = <<calls[c].inv.op>>
    /\ \A i \in SendIds :
          /\ fetchCount[i] <= sends[i].index
          /\ OthersIdle(i) => fetchCount[i] <= 1
C13_Step ==
    \A i \in SendIds :
        fetchCount'[i] # fetchCount[i] =>
            /\ fetchCount'[i] = fetchCount[i] + 1
            /\ sends'[i].index = sends[i].index + 1
            /\ _codes = << >>
            /\ sends'[i].status = "running"
NoRetry == []C13_State /\ [][C13_Step]_vars
\* a send rejected after a failed transmission, and getContentList rejected after
\* its own request failed, each having issued every request once
NoRetry_Witness ==
    \/ \E i \in SendIds :
          /\ sends[i].status = "rejected"
          /\ Len(sends[i].codes) >= 2
          /\ EventsOf(i, "fail") # {}
          /\ Cardinality(EventsOf(i, "tx")) = 1
    \/ \E c \in CallIds :
          /\ calls[c].inv.op = "getContentList"
          /\ calls[c].status = "rejected"
          /\ calls[c].sent = <<"getSupportedApiInfo", "getContentList">>
          /\ lastJson[c].kind = "rejected"

\* ------------------------------------------------------------------ claims: settling

\* C14: an operation whose every request has been answered (or has failed) is
\* settled, whatever the answer was, and an answer whose body does not parse has
\* made it reject.
SettlesOnEveryAnswer ==
    \A c \in CallIds :
        /\ (calls[c].status = "running") => \E r \in jsonRequests : r.owner = c
        /\ (/\ lastResp[c].error = "none"
            /\ lastResp[c].statusCode = 200
            /\ lastResp[c].method # ""
            /\ ~Decoded(c).ok)
              => calls[c].status = "rejected"

\* ------------------------------------------------------------------ claims: IRCC success

\* the step treats invocation i's transmission as successful: the delay is armed
TreatedAsSuccess(i) == \E t \in timers' \ timers : t.owner = i

\* C15: a transmission is treated as successful (send arms the delay) only when
\* the answer is a 200 whose body is not a fault; an answer with a fault body is
\* never treated as successful.
C15_Step ==
    \A r \in requests, resp \in IRCCResponses :
        (IRCCResponse(r, resp) /\ TreatedAsSuccess(r.owner))
            => resp.error = "none" /\ resp.statusCode = 200 /\ resp.body # "fault"
SuccessOnlyWithoutFault == [][C15_Step]_vars

\* ------------------------------------------------------------------ claims: getContentList

ContentCalls == {c \in CallIds : calls[c].inv.op = "getContentList"}
ContentRequests == {r \in jsonRequests : r.method = "getContentList"}
\* the version the table gives for the method
Resolved(apiInfo, method) ==
    IF Listed(apiInfo, method) THEN LastVersion(apiInfo, method) ELSE "1.0"
\* the failures of version resolution: of the fetch, of its body, of the table
ResolutionFailures(c) ==
    {TypeError, MissingResult("getSupportedApiInfo", "", lastJson[c].body)}
    \cup (IF lastJson[c].kind = "rejected" THEN {lastJson[c].error} ELSE {})

\* C16: a getContentList request is transmitted in the step in which the version
\* for avContent/getContentList is resolved from the namespace's table, cached or
\* just fetched, and carries that version; a getContentList call whose version
\* resolution failed (the fetch was rejected, or its body decoded to something
\* without a table) has transmitted no getContentList request and is rejected
\* with the failure of the resolution.
C16_State ==
    /\ \A r \in ContentRequests :
          /\ calls[r.owner].inv.op = "getContentList"
          /\ calls[r.owner].sent \in {<<"getContentList">>,
                                      <<"getSupportedApiInfo", "getContentList">>}
          /\ {q \in jsonRequests : q.owner = r.owner} = {r}
    /\ \A c \in ContentCalls :
          (calls[c].status = "rejected" /\ lastResp[c].method # "getContentList")
              => /\ PostsOf(c, "getContentList") = {}
                 /\ calls[c].error \in ResolutionFailures(c)
C16_Step ==
    /\ \A r \in ContentRequests' \ ContentRequests :
          /\ apiInfoMap'["avContent"].has
          /\ Len(apiInfoMap'["avContent"].value) > 0
          /\ r.version = Resolved(apiInfoMap'["avContent"].value, "getContentList")
    /\ \A c \in CallIds :
          (/\ calls'[c].inv.op = "getContentList"
           /\ lastResp'[c] # lastResp[c]
           /\ lastResp'[c].method = "getSupportedApiInfo"
           /\ lastJson'[c].kind # "thrown"
           /\ ~(/\ lastJson'[c].kind = "resolved"
                /\ "result" \in lastJson'[c].body.keys
                /\ Len(lastJson'[c].body.result[1].services) > 0))
              => calls'[c].status = "rejected" /\ PostsOf(c, "getContentList")' = {}
ContentListAfterVersion == []C16_State /\ [][C16_Step]_vars
\* one call's request is in flight with the version it fetched (the last listed,
\* not the default) while another call failed to resolve the version
ContentListAfterVersion_Witness ==
    /\ \E r \in ContentRequests :
          /\ r.version = "1.2"
          /\ calls[r.owner].sent = <<"getSupportedApiInfo", "getContentList">>
    /\ \E c \in ContentCalls :
          /\ calls[c].status = "rejected"
          /\ calls[c].sent = <<"getSupportedApiInfo">>

\* ------------------------------------------------------------------ claims: discovery

\* the parsed descriptor a 200 answer delivers, if it parses
ParsedOf(resp) == parseString(resp.body).result
Parses(resp) ==
    resp.error = "none" /\ resp.statusCode = 200 /\ ~parseString(resp.body).err
\* the descriptor is of a device but lacks the expected service listing
LacksListing(resp) ==
    /\ Parses(resp)
    /\ ParsedOf(resp).hasDevice
    /\ \/ ~ParsedOf(resp).hasServiceList
       \/ \A k \in 1..Len(ParsedOf(resp).services) :
              ParsedOf(resp).services[k].serviceType # SSDP_SERVICE_TYPE
\* the descriptor cannot be fetched, cannot be parsed, or is malformed
BadDescriptor(resp) ==
    \/ resp.error # "none"
    \/ resp.statusCode # 200
    \/ parseString(resp.body).err
    \/ ~ParsedOf(resp).hasDevice
Terminal(status) == status \in {"resolved", "failed"}
UDNs(list) == {list[k].UDN : k \in 1..Len(list)}

\* C17: a scan resolves when its deadline timer fires, with the devices
\* accumulated up to then; the list has no entry for a responder whose descriptor
\* lacks the service listing (no serviceList, or one without the IRCC service
\* type), and such a responder is skipped: its descriptor changes nothing and
\* does not fail the scan.
C17_Step ==
    /\ (DeadlineFires /\ scan.status = "scanning")
          => scan'.status = "resolved" /\ scan'.value = discovered
    /\ \A d \in Responders : \A resp \in DescriptorResponses(d) :
          (DescriptorResponse(d, resp) /\ LacksListing(resp))
              => /\ d \notin UDNs(discovered')
                 /\ scan' = scan
                 /\ discovered' = discovered
DeadlineResolvesFilteredList == [][C17_Step]_vars

\* C18: once the scan has resolved, the list handed to the caller (the array
\* discovered itself) keeps the elements it had when the deadline fired.
ResolvedListNeverChanges ==
    scan.status = "resolved" => discovered = scan.value

\* C19: when, while the scan is running, a responder's descriptor cannot be
\* fetched, cannot be parsed or is malformed, the scan rejects with a discovery
\* error, the deadline timer is cleared and the search stopped; a failed scan has
\* handed no list to the caller, whatever it had collected.
C19_State ==
    scan.status = "failed"
        => scan.value = << >> /\ scan.error # NoDiscErr /\ ~timer.armed
C19_Step ==
    \A d \in Responders : \A resp \in DescriptorResponses(d) :
        (DescriptorResponse(d, resp) /\ scan.status = "scanning" /\ BadDescriptor(resp))
            => /\ scan'.status = "failed"
               /\ scan'.error \in
                     {DiscErr("Error retrieving the description metadata for device "),
                      DiscErr("Failed to parse the discovery response: "),
                      DiscErr("Unexpected or malformed discovery response: ")}
               /\ ~timer'.armed
               /\ ssdp' = "stopped"
BadDescriptorFailsScan == []C19_State /\ [][C19_Step]_vars
\* a scan that had collected a device failed on another responder's descriptor
BadDescriptorFailsScan_Witness ==
    /\ scan.status = "failed"
    /\ Len(discovered) >= 1
    /\ \E d \in Responders : BadDescriptor(answered[d]) /\ answered[d] # NoAnswer
    /\ ~timer.armed

\* C20: a scan settles once: a terminal state is never left, a failed scan has no
\* list and a resolved scan no error, the search is started once and is stopped
\* in a terminal state with the timer not armed; and a running scan reaches a
\* terminal state.
C20_State ==
    /\ scan.status \in {"idle", "scanning", "resolved", "failed"}
    /\ scan.searches <= 1
    /\ scan.status = "failed" => scan.value = << >> /\ scan.error # NoDiscErr
    /\ scan.status = "resolved" => scan.error = NoDiscErr
    /\ Terminal(scan.status) => ssdp = "stopped" /\ ~timer.armed
    /\ scan.status = "scanning" => timer.armed
C20_Step ==
    Terminal(scan.status) => scan' = scan /\ ssdp' = "stopped" /\ ~timer'.armed
ScanSettlesOnce ==
    /\ []C20_State
    /\ [][C20_Step]_vars
    /\ (scan.status = "scanning") ~> Terminal(scan.status)
\* a descriptor fetch failed after the scan had resolved: the scan stays resolved
ScanSettlesOnce_Witness ==
    /\ scan.status = "resolved"
    /\ \E d \in Responders : answered[d].error # "none"

\* ------------------------------------------------------------------ claims: configuration

\* C21: every request the client posts, IRCC submission or structured call,
\* carries the client's shared secret in X-Auth-PSK and the client's timeout, and
\* every request in flight was posted with such options.
EveryRequestCarriesSecret ==
    /\ \A w \in wire : w.psk = config.psk /\ w.timeout = config.timeout
    /\ \A r \in requests : r.kind = "IRCC" => RequestOptions(config, "/IRCC") \in wire
    /\ \A r \in jsonRequests : JsonOptions(config, r.service) \in wire
    /\ (\E i \in SendIds : EventsOf(i, "tx") # {}) => \E w \in wire : w.soapAction
    /\ (\E c \in CallIds : calls[c].sent # << >>) => \E w \in wire : ~w.soapAction
\* a client constructed with another secret and timeout has posted a request
EveryRequestCarriesSecret_Witness ==
    /\ config.psk = "s3cret"
    /\ config.timeout = 1000
    /\ \E w \in wire : w.soapAction /\ w.psk = "s3cret" /\ w.timeout = 1000

\* C28: no operation, successful or failed, changes the host, port, shared
\* secret, timeout or base URL the client was constructed with.
C28_State ==
    config = constructor(config.host, config.port, config.psk, config.timeout)
ConfigNeverChanges == []C28_State /\ [][config' = config]_vars
\* one send has failed, another has succeeded
ConfigNeverChanges_Witness ==
    /\ \E i \in SendIds : sends[i].status = "rejected" /\ EventsOf(i, "fail") # {}
    /\ \E i \in SendIds : sends[i].status = "resolved" /\ EventsOf(i, "done") # {}
    /\ config \in Configs

\* ------------------------------------------------------------------ claims: getInterfaceInformation

InterfaceCalls == {c \in CallIds : calls[c].inv.op = "getInterfaceInformation"}
InterfaceText(r) ==
    [text |-> <<r.modelName, " ", r.productName, "/", r.interfaceVersion>>,
     payload |-> NoPayload]

StringInput(c) == [type |-> "string", str |-> c, list |-> << >>]
ListInput(c) == [type |-> "array", str |-> NoCode, list |-> <<c>>]

\* C23: send called with a single string takes the client to the same state as
\* send called with the one-element list holding that string (same request or
\* table fetch issued, same log, same pending work), so everything that follows,
\* requests, delay and outcome, is the same.
StringIsOneElementList ==
    [][\A i \in SendIds, c \in Commands :
          CallSend(i, StringInput(c)) <=> CallSend(i, ListInput(c))]_vars
\* a send of one command has been transmitted, waited the delay and resolved
StringIsOneElementList_Witness ==
    \E i \in SendIds :
        /\ Len(sends[i].codes) = 1
        /\ sends[i].status = "resolved"
        /\ EventsOf(i, "tx") # {}
        /\ EventsOf(i, "delayEnd") # {}

\* ------------------------------------------------------------------ claims: unload

\* C24: after the adapter's unload handler has run no status poll is started
\* again, whatever was scheduled or in flight at that moment.
NoPollAfterUnload == [][phase = "unloaded" => polls' = polls]_vars

\* ------------------------------------------------------------------ claims: the caches

TableFetches == {r \in requests : r.kind = "table"}

C25_Step ==
    /\ _codes' # _codes
          => \E r \in TableFetches, res \in InvokeResults :
                res.ok /\ RemoteControllerInfoResponse(r, res) /\ _codes' = res.value
    /\ TableFetches' \ TableFetches # {} => Len(_codes) = 0
    /\ (Len(_codes) > 0 /\ TableFetches = {}) => _codes' = _codes
    /\ \A ns \in Namespaces :
          /\ apiInfoMap'[ns] # apiInfoMap[ns]
                => /\ apiInfoMap'[ns].has
                   /\ \E r \in FetchesInFlight(ns), resp \in VersionResponses :
                         JsonResponse(r, resp)
          /\ FetchesInFlight(ns)' \ FetchesInFlight(ns) # {} => ~apiInfoMap[ns].has
          /\ (apiInfoMap[ns].has /\ FetchesInFlight(ns) = {}) => apiInfoMap'[ns] = apiInfoMap[ns]
FetchedApiTables ==
    {JSONparse(resp.body).body.result[1].services :
        resp \in {x \in VersionResponses :
                     /\ x.error = "none"
                     /\ x.statusCode = 200
                     /\ "result" \in JSONparse(x.body).body.keys}}
C26_State ==
    /\ _codes \in Tables
    /\ \A ns \in Namespaces :
          \/ apiInfoMap[ns] = NoEntry
          \/ apiInfoMap[ns].has /\ apiInfoMap[ns].value \in FetchedApiTables
    /\ \A i \in SendIds :
          (settled[i].src = "getIRCCCodes" /\ settled[i].ok) => settled[i].value \in Tables
    /\ \A c \in VersionCalls :
          calls[c].status = "resolved" =>
             \E T \in FetchedApiTables :
                calls[c].value = ValueOf(supportedVersion(T, calls[c].inv.method))
C26_Step ==
    /\ \A r \in TableFetches, res \in InvokeResults :
          (res.ok /\ RemoteControllerInfoResponse(r, res))
             => /\ _codes' = res.value
                /\ settled'[r.owner].value = res.value
    /\ \A ns \in Namespaces : \A r \in FetchesInFlight(ns), resp \in VersionResponses :
          (/\ JsonResponse(r, resp)
           /\ lastJson'[r.owner].kind = "resolved"
           /\ "result" \in lastJson'[r.owner].body.keys)
             => apiInfoMap'[ns] = Entry(lastJson'[r.owner].body.result[1].services)
\* C26: with sends that overlap and version resolutions that overlap, the
\* Command Table and every API Info Cache entry are at every moment empty or one
\* whole table that one device fetch returned; each successful fetch answer
\* replaces the cache by its table (the last answer wins); and every lookup is
\* made in one whole table.
CachesHoldOneFetchedTable == []C26_State /\ [][C26_Step]_vars
\* two overlapping sends each fetched the table: one saw the full table, the
\* other the empty one, and the cache holds the table answered last
CachesHoldOneFetchedTable_Witness ==
    \E i, j \in SendIds :
        /\ fetchCount[i] = 1 /\ fetchCount[j] = 1
        /\ settled[i] = Outcome("getIRCCCodes", TRUE, FullTable, NoError)
        /\ settled[j] = Outcome("getIRCCCodes", TRUE, EmptyTable, NoError)
        /\ TableFetches = {}
        /\ _codes = EmptyTable

\* ------------------------------------------------------------------ claims: instances

\* the operation of instance k on its one send or call has come past the cache
PastTable(k) ==
    LET st == This(k)
    IN /\ st.sends[1].index = 1
       /\ ~LiteralShape(st.sends[1].codes[1])
       /\ \E e \in 1..Len(st.log[1]) : st.log[1][e].ev = "tx"
PastApiInfo(k) ==
    LET st == This(k)
    IN st.calls[1].inv.op = "getSupportedApiVersion" /\ st.calls[1].status = "resolved"
C27_State ==
    \A k \in Instances :
        LET st == This(k)
        IN /\ Len(st.codes) > 0 => st.fetchCount[1] = 1
           /\ PastTable(k) => st.fetchCount[1] = 1
           /\ \A ns \in Namespaces : st.map[ns].has => st.fetches[ns] = 1
           /\ PastApiInfo(k) => st.fetches[st.calls[1].inv.schema] = 1
C27_Step ==
    /\ peer' = peer \/ <<sendVars, apiVars, confVars>>' = <<sendVars, apiVars, confVars>>
    /\ \A k \in Instances :
          (This(k).codes' # This(k).codes \/ This(k).map' # This(k).map)
             => \A j \in Instances \ {k} : This(j)' = This(j)
\* C27: of two client instances, every operation and every answer changes the
\* fields of one instance only, so the Command Table and the API Info Cache of
\* an instance are filled and changed by that instance's own fetches alone; an
\* instance whose cache is filled has fetched itself, and an instance that looks
\* up a name or a version has fetched itself, whatever the other instance holds.
InstancesShareNoCache == []C27_State /\ [][C27_Step]_vars
\* the first instance holds the full table; the second, sending a name, is
\* fetching the table itself
InstancesShareNoCache_Witness ==
    /\ _codes = FullTable
    /\ peer.codes = EmptyTable
    /\ peer.fetchCount[1] = 1
    /\ \E r \in peer.requests : r.kind = "table"

\* ------------------------------------------------------------------ claims: send resolves

\* the log of a send that went through its n commands: for the k-th command its
\* transmission, the success of the transmission, the start and the end of the delay
RanThrough(i) ==
    /\ Len(log[i]) = 4 * Len(sends[i].codes)
    /\ \A k \in 1..Len(sends[i].codes) :
          /\ log[i][4 * k - 3].ev = "tx"
          /\ log[i][4 * k - 3].code \in Sendable(sends[i].codes[k])
          /\ log[i][4 * k - 2].ev = "done"
          /\ log[i][4 * k - 1].ev = "delayStart"
          /\ log[i][4 * k].ev = "delayEnd"
          /\ \A e \in (4 * k - 3)..(4 * k) : log[i][e].idx = k

\* C29: a send that has resolved has transmitted every command of its list, in
\* the order of the list, each transmission was answered successfully and was
\* followed by the whole inter-command delay, the last one too; nothing of it is
\* pending; a send of the empty list has resolved without any request.
SendResolvesAfterAllCommands ==
    \A i \in SendIds :
        /\ sends[i].status = "resolved" =>
              /\ RanThrough(i)
              /\ PendingOf(i) = {}
              /\ ArmedOf(i) = {}
        /\ (sends[i].status # "idle" /\ sends[i].codes = << >>) =>
              /\ sends[i].status = "resolved"
              /\ log[i] = << >>
              /\ fetchCount[i] = 0
\* a send of two commands and a send of the empty list have resolved
SendResolvesAfterAllCommands_Witness ==
    \E i, j \in SendIds :
        /\ sends[i].status = "resolved"
        /\ Len(sends[i].codes) = 2
        /\ Len(log[i]) = 8
        /\ sends[j].status = "resolved"
        /\ sends[j].codes = << >>

\* ------------------------------------------------------------------ claims: failed fetch

\* the error getSupportedApiInfo rejects with for the outcome of its request,
\* NoJsonErr when it does not reject
FetchFailure(out) ==
    IF out.kind = "rejected" THEN out.error
    ELSE IF out.kind = "thrown" THEN NoJsonErr
    ELSE IF out.body.type = "null" THEN TypeError
    ELSE IF "result" \in out.body.keys THEN NoJsonErr
    ELSE MissingResult("getSupportedApiInfo", "", out.body)
C30_Step ==
    /\ \A r \in jsonRequests, resp \in JsonResponses :
          LET c == r.owner
              ns == SchemaOf(calls[c].inv)
          IN (/\ r.method = "getSupportedApiInfo"
              /\ calls[c].inv.op = "getSupportedApiVersion"
              /\ JsonResponse(r, resp)
              /\ FetchFailure(lastJson'[c]) # NoJsonErr)
                => /\ calls'[c].status = "rejected"
                   /\ calls'[c].error = FetchFailure(lastJson'[c])
                   /\ calls'[c].sent = <<"getSupportedApiInfo">>
                   /\ apiInfoMap' = apiInfoMap
                   /\ ~apiInfoMap'[ns].has
    /\ \A inv \in VersionInvocations :
          (CallAlone(inv) /\ ~apiInfoMap[SchemaOf(inv)].has)
             => /\ apiFetchCount'[SchemaOf(inv)] = apiFetchCount[SchemaOf(inv)] + 1
                /\ FetchesInFlight(SchemaOf(inv))' # {}
\* C30: when the fetch of a namespace's API info fails (transport error, status
\* other than 200, or a body without result), getSupportedApiVersion rejects with
\* that failure, the API Info Cache is left as it was, without an entry for the
\* namespace, and the next call for the namespace fetches again.
FailedFetchIsNotCached == [][C30_Step]_vars
\* a namespace was fetched a second time; that fetch was rejected with a status
\* error and the namespace has no entry
FailedFetchIsNotCached_Witness ==
    \E ns \in Namespaces :
        /\ apiFetchCount[ns] = 2
        /\ ~apiInfoMap[ns].has
        /\ calls[1].inv.op = "getSupportedApiVersion"
        /\ calls[1].inv.schema = ns
        /\ calls[1].status = "rejected"
        /\ lastResp[1].statusCode = 500


\* ------------------------------------------------------------------ C31
\* the state changes something was started for: a pending read, a device
\* command in flight, a follow-up timeout, or a device request already issued
Acted ==
    requested \cup {g.n : g \in gates} \cup {c.n : c \in commands} \cup {t.n : t \in armed}

\* C31: a device command is issued only for a state change whose state is
\* present and not acknowledged; a change with ack true and a deleted state
\* (null) cause no read, no device request and no follow-up poll.
OnlyCommandsReachTheDevice ==
    \A n \in 1..Len(changes) : n \in Acted => changes[n].state = "command"

OnlyCommandsReachTheDevice_Witness ==
    /\ Len(changes) = 2
    /\ changes[1].state \in {"null", "ack"}
    /\ changes[2].state = "command"
    /\ requested = {2}


\* ------------------------------------------------------------------ C32
\* the gated state changes whose command went to the device, or whose read of
\* the object was started after the power test
PastPowerTest ==
    requested \cup {g.n : g \in {h \in gates : h.stage = "getObject"}}
              \cup {c.n : c \in commands} \cup {t.n : t \in armed}

\* C32: a content selection, application launch, terminate-apps or volume-set
\* state change reaches the device only if the info.powerStatusActive value
\* read for it is true; when the value is false or the read fails, nothing is
\* requested from the device and no follow-up poll is scheduled for it.
GatedCommandsNeedPower ==
    \A n \in 1..Len(changes) :
        changes[n].kind \in GatedKinds /\ n \in PastPowerTest => changes[n].power = "true"

GatedCommandsNeedPower_Witness ==
    /\ Len(changes) = 2
    /\ changes[1].kind \in GatedKinds /\ changes[1].state = "command"
    /\ changes[1].power \in {"false", "err", "null"}
    /\ 1 \notin Acted
    /\ changes[2].kind \in GatedKinds /\ changes[2].power = "true"
    /\ 2 \in requested

\* ------------------------------------------------------------------ C33
\* C33: a status poll reads the device (power status, playing content, volume)
\* only when its ping reported the device alive; when the ping reports it not
\* alive the poll reads nothing, info.connection is false afterwards,
\* info.powerStatusActive is set to false and info.playingContentInfo to "".
PollReadsOnlyWhenAlive ==
    /\ [](\A q \in queried :
             \E e \in pinged : e.poll = q.poll /\ e.outcome.result = "alive")
    /\ [][\A p \in pings, outcome \in PingOutcomes :
             pingAnswered(p, outcome) /\ outcome.result = "dead" =>
                 /\ queries' = queries
                 /\ queried' = queried
                 /\ isConnected' = "false"
                 /\ states' = [connection |-> "false", powerStatusActive |-> "false",
                               playingContentInfo |-> ""]]_vars

PollReadsOnlyWhenAlive_Witness ==
    /\ \E e \in pinged : e.outcome.result = "dead" /\ \A q \in queried : q.poll # e.poll
    /\ \E e \in pinged : e.outcome.result = "alive"
                         /\ \A op \in PollReads : Query(e.poll, op) \in queried
    /\ written = <<"true", "false">>
    /\ states.powerStatusActive = "false"
    /\ states.playingContentInfo = ""
    /\ queries = {}

\* ------------------------------------------------------------------ C34
\* the value a ping answer leaves remembered: the result's, false on an error
\* without result
Remembered(outcome) == IF outcome.result = "none" THEN "false" ELSE Alive(outcome)

\* C34: info.connection is written only when the connection value changes: no
\* two consecutive writes carry the same value, the store entry equals the
\* remembered value once there is one, and after every ping answer the
\* remembered value is that ping's result (false on an error without result).
ConnectionWrittenOnChange ==
    /\ [](\A i \in 1..(Len(written) - 1) : written[i] # written[i + 1])
    /\ [](IF isConnected = "null" THEN written = << >> /\ states.connection = "unset"
          ELSE written # << >> /\ written[Len(written)] = isConnected
               /\ states.connection = isConnected)
    /\ [][\A p \in pings, outcome \in PingOutcomes :
             pingAnswered(p, outcome) => isConnected' = Remembered(outcome)]_vars

ConnectionWrittenOnChange_Witness ==
    /\ written = <<"false">>
    /\ isConnected = "false"
    /\ \E e, f \in pinged :
          /\ e.poll # f.poll
          /\ e.outcome = [err |-> TRUE, result |-> "none"]
          /\ f.outcome = [err |-> FALSE, result |-> "dead"]

====
